---- MODULE Spec2Model ----
(***************************************************************************)
(* Model of the "fix the interface" mini-game of Abendgast/AngularProj.    *)
(*                                                                         *)
(* The full-mode GameService (src/src/app/app.component.ts, lines 273-881) *)
(* owns one GameState object (state$.value) that every handler replaces    *)
(* wholesale, plus private fields (timer, lastFixTime, comboTimeout) and   *)
(* the browser's pending timers.  One action models one handler or one     *)
(* timer callback, with every state$.next it performs; the state after the *)
(* action is the last state the handler publishes.                         *)
(*                                                                         *)
(* Time is counted in seconds (1 unit = 1000 ms): the game tick has period *)
(* 1, the combo window is 3, freeze lasts 10 and double lasts 15.  The     *)
(* 500 ms achievement notice falls between two instants: it fires before   *)
(* the clock reaches the next second.  Numbers with fractions (opacity,    *)
(* scale) are kept in hundredths.  Strings that the code transforms (text, *)
(* colour) are sequences of one-character strings.                         *)
(*                                                                         *)
(* The classic-mode GameService (src/src/app/services/game.service.ts) and *)
(* the simple mode (src/src/app/simple-mode: SimpleModeService and the     *)
(* SimpleModeComponent that drives it) are modelled beside it, each in a   *)
(* variable of its own; the simple mode counts its timers in units of      *)
(* 100 ms.                                                                 *)
(***************************************************************************)
EXTENDS Integers, Sequences, FiniteSets, TLC

VARIABLES
    state,        \* state$.value : GameState
    timer,        \* this.timer: index in intervals of the live handle, 0 if cleared
    intervals,    \* due times of the live setInterval timers, in creation order
    lastFixTime,  \* this.lastFixTime
    comboTimeout, \* due time of the pending combo timeout, NoTimer if none
    timeouts,     \* pending power-up expiry timeouts: set of [id, due]
    notices,      \* pending achievement notices (setTimeout 500 ms), oldest first
    now,          \* Date.now(), in seconds
    gamesPlayed,  \* localStorage fti_stats.gamesPlayed
    classic,      \* the classic-mode GameService: [state, timer]
    simple        \* SimpleModeService's state$.value and SimpleModeComponent's fields

vars == <<state, timer, intervals, lastFixTime, comboTimeout, timeouts,
          notices, now, gamesPlayed, classic, simple>>

(***************************************************************************)
(* Bounds of the model.                                                    *)
(***************************************************************************)
MaxTime == 3          \* seconds the clock may advance in Spec
MaxLevel == 1         \* fixAttempt is explored up to this level
MaxHints == 1         \* useHint calls explored per level
MaxPending == 1       \* power-up timeouts pending at once
MaxRepairs == 3       \* repairs in a row explored in SpecOrder

(***************************************************************************)
(* Program constants.                                                      *)
(***************************************************************************)
initialTimeBase == 90
MinTime == 30
LevelTimeStep == 8
baseCount == 4
TickPeriod == 1
ComboWindow == 3
FreezeDuration == 10
DoubleDuration == 15
HintPenalty == 8
RotateTolerance == 15
SliderTolerance == 2
UnitTolerance == 10
TimeBonusPerSecond == 8
ComboBonusPerStep == 50
NoTimer == -1
NoIndex == -1
NoId == -1

Max(a, b) == IF a >= b THEN a ELSE b
Min(a, b) == IF a <= b THEN a ELSE b
Abs(a) == IF a >= 0 THEN a ELSE -a

\* JavaScript's % : the remainder has the sign of the dividend.
JsRem(a, n) == IF a >= 0 THEN a % n ELSE -((-a) % n)

(***************************************************************************)
(* Strings the code transforms: sequences of characters.                   *)
(***************************************************************************)
UpperChars == <<"A", "B", "C", "D", "E", "F", "I", "X">>
LowerChars == <<"a", "b", "c", "d", "e", "f", "i", "x">>

\* String.prototype.toLowerCase on one character
LowerChar(c) ==
    IF \E i \in 1..Len(UpperChars) : UpperChars[i] = c
    THEN LowerChars[CHOOSE i \in 1..Len(UpperChars) : UpperChars[i] = c]
    ELSE c

ToLowerCase(s) == [i \in 1..Len(s) |-> LowerChar(s[i])]

IsSpace(c) == c = " "

RECURSIVE TrimStart(_)
TrimStart(s) ==
    IF s /= <<>> /\ IsSpace(Head(s)) THEN TrimStart(Tail(s)) ELSE s

RECURSIVE TrimEnd(_)
TrimEnd(s) ==
    IF s /= <<>> /\ IsSpace(s[Len(s)]) THEN TrimEnd(SubSeq(s, 1, Len(s) - 1)) ELSE s

\* String.prototype.trim
Trim(s) == TrimEnd(TrimStart(s))

\* c.replace(/\s/g, '')
RECURSIVE StripSpaces(_)
StripSpaces(s) ==
    IF s = <<>> THEN <<>>
    ELSE IF IsSpace(Head(s)) THEN StripSpaces(Tail(s))
    ELSE <<Head(s)>> \o StripSpaces(Tail(s))

\* colorsMatch(c1, c2)
colorsMatch(c1, c2) == ToLowerCase(StripSpaces(c1)) = ToLowerCase(StripSpaces(c2))

\* (newUi.currentText || '').trim().toLowerCase() === expected.trim().toLowerCase()
textMatches(cur, expected) == ToLowerCase(Trim(cur)) = ToLowerCase(Trim(expected))

(***************************************************************************)
(* Catalogues of generateLevel.                                            *)
(***************************************************************************)
allOpts == <<"clickBroken", "rotateBroken", "textBroken", "colorWrong", "blur",
             "disabled", "sliderBroken", "orderIndex", "checkboxBroken",
             "toggleBroken", "dropdownBroken", "opacityBroken", "scaleBroken">>
angles == <<90, 180, 270>>
words == << <<"f", "i", "x">>, <<"h", "e", "l", "l", "o">>,
            <<"a", "n", "g", "u", "l", "a", "r">>, <<"d", "e", "b", "u", "g">>,
            <<"c", "o", "d", "e">>, <<"u", "i">>, <<"d", "e", "v">>,
            <<"w", "e", "b">>, <<"a", "p", "p">> >>
colors == << <<"#", "F", "F", "6", "B", "6", "B">>,
             <<"#", "4", "E", "C", "D", "C", "4">>,
             <<"#", "4", "5", "B", "7", "D", "1">>,
             <<"#", "F", "F", "A", "0", "7", "A">>,
             <<"#", "9", "8", "D", "8", "C", "8">>,
             <<"#", "F", "3", "8", "1", "8", "1">>,
             <<"#", "A", "A", "9", "6", "D", "A">>,
             <<"#", "F", "C", "B", "A", "D", "3">> >>
options == <<"Option A", "Option B", "Option C", "Option D">>
GrayColor == <<"#", "8", "0", "8", "0", "8", "0">>
SliderBase == 30
SliderSpan == 40

PowerUpIds == {"freeze", "autofix", "double"}
\* initAchievements: the ids, in the order of the array
achievementOrder ==
    <<"first_fix", "combo_5", "speed_demon", "perfectionist", "level_5", "score_1000">>
AchievementIds == {achievementOrder[k] : k \in 1..Len(achievementOrder)}

\* initPowerUps: the cost of each power-up
Cost(p) == CASE p = "freeze" -> 300 [] p = "autofix" -> 500 [] p = "double" -> 200

\* initPowerUps: every power-up starts inactive
initPowerUps == [p \in PowerUpIds |-> FALSE]

\* initAchievements: every achievement starts locked, score_1000 with progress 0
initAchievements == [a \in AchievementIds |-> [unlocked |-> FALSE, progress |-> 0]]

(***************************************************************************)
(* Elements.  A brokenProps key that is absent (or deleted) holds the      *)
(* value that JavaScript reads as "not there": FALSE, 0 for rotateBroken   *)
(* (only its truthiness is read), an empty string, or NoValue for the keys *)
(* the code tests with typeof ... === 'number'.                            *)
(***************************************************************************)
NoValue == -1

emptyBrokenProps ==
    [clickBroken |-> FALSE, rotateBroken |-> 0, textBroken |-> <<>>,
     colorWrong |-> <<>>, orderIndex |-> NoIndex, blur |-> FALSE,
     disabled |-> FALSE, sliderBroken |-> NoValue, checkboxBroken |-> FALSE,
     toggleBroken |-> FALSE, dropdownBroken |-> "", opacityBroken |-> NoValue,
     scaleBroken |-> NoValue]

\* generateLevel: the ui every element starts from, before its picks
initialUi(i) ==
    [rotation |-> 0, currentText |-> <<>>, currentColor |-> GrayColor,
     blurred |-> FALSE, disabled |-> FALSE, orderIndex |-> i, clicked |-> FALSE,
     sliderValue |-> 0, checked |-> FALSE, toggleState |-> FALSE,
     selectedOption |-> "", opacity |-> 100, scale |-> 100]

\* generateLevel: count = baseCount + Math.floor(level * 1.5)
\* a variant that rounds level * 1.5 up
ElementCountCeil(level) == baseCount + ((level * 3 + 1) \div 2)

ElementCount(level) == baseCount + ((level * 3) \div 2)

\* generateLevel: the largest pickCount, min(2, ceil(level / 2))
MaxPickCount(level) == Min(2, (level + 1) \div 2)

\* generateLevel: the switch over one pick p = [k, r], r the random draw
\* Math.floor(Math.random() * n) the case uses (0 where it uses none)
\* a variant that records the defect and leaves the ui as it is
InstallPickKeepsUi(e, p, count) ==
    [e EXCEPT !.bp = IF p.k = "blur" THEN [@ EXCEPT !.blur = TRUE]
                     ELSE IF p.k = "orderIndex" THEN [@ EXCEPT !.orderIndex = p.r]
                     ELSE [@ EXCEPT !.clickBroken = TRUE]]

InstallPick(e, p, count) ==
    CASE p.k = "clickBroken" ->
           [e EXCEPT !.bp.clickBroken = TRUE]
      [] p.k = "rotateBroken" ->
           [e EXCEPT !.bp.rotateBroken = angles[p.r + 1],
                     !.ui.rotation = (angles[p.r + 1] + 180) % 360]
      [] p.k = "textBroken" ->
           [e EXCEPT !.bp.textBroken = words[p.r + 1], !.ui.currentText = <<>>]
      [] p.k = "colorWrong" ->
           [e EXCEPT !.bp.colorWrong = colors[p.r + 1], !.ui.currentColor = GrayColor]
      [] p.k = "blur" ->
           [e EXCEPT !.bp.blur = TRUE, !.ui.blurred = TRUE]
      [] p.k = "disabled" ->
           [e EXCEPT !.bp.disabled = TRUE, !.ui.disabled = TRUE]
      [] p.k = "sliderBroken" ->
           [e EXCEPT !.bp.sliderBroken = SliderBase + p.r, !.ui.sliderValue = 0]
      [] p.k = "orderIndex" ->
           [e EXCEPT !.bp.orderIndex = p.r]
      [] p.k = "checkboxBroken" ->
           [e EXCEPT !.bp.checkboxBroken = TRUE, !.ui.checked = FALSE]
      [] p.k = "toggleBroken" ->
           [e EXCEPT !.bp.toggleBroken = TRUE, !.ui.toggleState = FALSE]
      [] p.k = "dropdownBroken" ->
           [e EXCEPT !.bp.dropdownBroken = options[p.r + 1], !.ui.selectedOption = ""]
      [] p.k = "opacityBroken" ->
           [e EXCEPT !.bp.opacityBroken = 100, !.ui.opacity = 30]
      [] p.k = "scaleBroken" ->
           [e EXCEPT !.bp.scaleBroken = 100, !.ui.scale = 50]

RECURSIVE InstallPicks(_, _, _)
InstallPicks(e, picks, count) ==
    IF picks = <<>> THEN e
    ELSE InstallPicks(InstallPick(e, Head(picks), count), Tail(picks), count)

\* a brokenProps number the code reads by truthiness: there and not 0
Truthy(n) == n /= NoValue /\ n /= 0

\* buildHint: the first defect kind present, in the code's order
buildHint(bp) ==
    IF bp.rotateBroken /= 0 THEN "rotate"
    ELSE IF bp.clickBroken THEN "click"
    ELSE IF bp.textBroken /= <<>> THEN "text"
    ELSE IF bp.colorWrong /= <<>> THEN "color"
    ELSE IF bp.blur THEN "blur"
    ELSE IF bp.disabled THEN "disabled"
    ELSE IF Truthy(bp.sliderBroken) THEN "slider"
    ELSE IF bp.orderIndex /= NoIndex THEN "order"
    ELSE IF bp.checkboxBroken THEN "checkbox"
    ELSE IF bp.toggleBroken THEN "toggle"
    ELSE IF bp.dropdownBroken /= "" THEN "dropdown"
    ELSE IF Truthy(bp.opacityBroken) THEN "opacity"
    ELSE IF Truthy(bp.scaleBroken) THEN "scale"
    ELSE "interact"

\* generateLevel: the element pushed in iteration i (0-based) of the loop
NewElement(i, picks, count) ==
    LET e == InstallPicks([id |-> i, bp |-> emptyBrokenProps, ui |-> initialUi(i),
                           fixed |-> FALSE, hint |-> ""], picks, count)
    IN  [e EXCEPT !.hint = buildHint(e.bp)]

\* [elements[i], elements[j]] = [elements[j], elements[i]]  (0-based i, j)
Swap(els, i, j) ==
    [k \in 1..Len(els) |-> IF k = i + 1 THEN els[j + 1]
                           ELSE IF k = j + 1 THEN els[i + 1] ELSE els[k]]

\* generateLevel: the Fisher-Yates loop, for i = length-1 down to 1, with
\* swaps[i] the draw j = Math.floor(Math.random() * (i + 1))
RECURSIVE Shuffle(_, _, _)
Shuffle(els, i, swaps) ==
    IF i < 1 THEN els ELSE Shuffle(Swap(els, i, swaps[i]), i - 1, swaps)

\* generateLevel: ui.orderIndex reassigned to the position after the shuffle
\* a variant that leaves ui.orderIndex as the loop of the generator set it
ReindexSkipped(els) == els

ReindexOrder(els) == [k \in 1..Len(els) |-> [els[k] EXCEPT !.ui.orderIndex = k - 1]]

\* generateLevel(level), with the random draws of the run given as rnd:
\* rnd.picks[i+1] is pickRandom's result for element i, rnd.swaps the
\* shuffle's draws
generateLevel(level, rnd) ==
    LET count == ElementCount(level)
        made == [k \in 1..count |-> NewElement(k - 1, rnd.picks[k], count)]
    IN  ReindexOrder(Shuffle(made, count - 1, rnd.swaps))

\* The draw of a pick lies in the range the code draws it from.
DrawInRange(p, count) ==
    CASE p.k = "rotateBroken" -> p.r \in 0..(Len(angles) - 1)
      [] p.k = "textBroken" -> p.r \in 0..(Len(words) - 1)
      [] p.k = "colorWrong" -> p.r \in 0..(Len(colors) - 1)
      [] p.k = "sliderBroken" -> p.r \in 0..(SliderSpan - 1)
      [] p.k = "orderIndex" -> p.r \in 0..(count - 1)
      [] p.k = "dropdownBroken" -> p.r \in 0..(Len(options) - 1)
      [] OTHER -> p.r = 0

\* rnd is a run of draws generateLevel(level) can make: pickCount kinds per
\* element, drawn without replacement (pickRandom), each draw in its range
ValidDraws(level, rnd) ==
    LET count == ElementCount(level)
    IN  /\ Len(rnd.picks) = count
        /\ Len(rnd.swaps) = count - 1
        /\ \A k \in 1..count :
              /\ Len(rnd.picks[k]) \in 1..MaxPickCount(level)
              /\ \A a \in 1..Len(rnd.picks[k]) :
                    /\ \E o \in 1..Len(allOpts) : allOpts[o] = rnd.picks[k][a].k
                    /\ DrawInRange(rnd.picks[k][a], count)
                    /\ \A b \in 1..Len(rnd.picks[k]) :
                          a /= b => rnd.picks[k][a].k /= rnd.picks[k][b].k
        /\ \A i \in 1..(count - 1) : rnd.swaps[i] \in 0..i

(***************************************************************************)
(* fixAttempt: the repair verifier of one element.                         *)
(***************************************************************************)
\* { ...el.ui, ...(payload || {}) }: the payload's keys override the ui's
MergeUi(ui, payload) == payload @@ ui

\* a variant without the wraparound at 0/360
rotateSatisfiedNoWrap(rotation, rotateBroken) ==
    Abs(JsRem(rotation, 360) - ((JsRem(rotateBroken, 360) + 360) % 360))
        <= RotateTolerance

\* the rotate test: need and cur as the code computes them
rotateSatisfied(rotation, rotateBroken) ==
    LET need == (JsRem(rotateBroken, 360) + 360) % 360
        cur == JsRem(rotation, 360)
        diff == Abs(cur - need)
    IN  diff <= RotateTolerance \/ Abs(diff - 360) <= RotateTolerance

\* the slider test
sliderSatisfied(sliderValue, sliderBroken) ==
    Abs(sliderValue - sliderBroken) <= SliderTolerance

\* the opacity and scale tests: Math.abs((v || 1) - target) <= 0.1 in
\* hundredths.  In IEEE doubles 1 - 0.9 is just under 0.1 and 1.1 - 1 just
\* over it, so the upper boundary is excluded.
unitSatisfied(v, target) ==
    LET x == IF v = 0 THEN 100 ELSE v
    IN  IF x <= target THEN target - x <= UnitTolerance
        ELSE x - target < UnitTolerance

\* the dimensions of bp that the merged ui satisfies and the code removes
Satisfied(bp, ui) ==
    [clickBroken |-> bp.clickBroken /\ ui.clicked,
     rotateBroken |-> /\ bp.rotateBroken /= 0
                      /\ JsRem(bp.rotateBroken, 360) /= 0
                      /\ rotateSatisfied(ui.rotation, bp.rotateBroken),
     textBroken |-> bp.textBroken /= <<>> /\ textMatches(ui.currentText, bp.textBroken),
     colorWrong |-> bp.colorWrong /= <<>> /\ colorsMatch(ui.currentColor, bp.colorWrong),
     blur |-> bp.blur /\ ~ui.blurred,
     disabled |-> bp.disabled /\ ~ui.disabled,
     sliderBroken |-> /\ bp.sliderBroken /= NoValue
                      /\ sliderSatisfied(ui.sliderValue, bp.sliderBroken),
     checkboxBroken |-> bp.checkboxBroken /\ ui.checked,
     toggleBroken |-> bp.toggleBroken /\ ui.toggleState,
     dropdownBroken |-> bp.dropdownBroken /= "" /\ ui.selectedOption = bp.dropdownBroken,
     opacityBroken |-> /\ bp.opacityBroken /= NoValue
                       /\ unitSatisfied(ui.opacity, bp.opacityBroken),
     scaleBroken |-> /\ bp.scaleBroken /= NoValue
                     /\ unitSatisfied(ui.scale, bp.scaleBroken)]

\* the dimensions of bp whose test the code enters (the `if` around each)
Tested(bp) ==
    [clickBroken |-> bp.clickBroken,
     rotateBroken |-> bp.rotateBroken /= 0 /\ JsRem(bp.rotateBroken, 360) /= 0,
     textBroken |-> bp.textBroken /= <<>>,
     colorWrong |-> bp.colorWrong /= <<>>,
     blur |-> bp.blur,
     disabled |-> bp.disabled,
     sliderBroken |-> bp.sliderBroken /= NoValue,
     checkboxBroken |-> bp.checkboxBroken,
     toggleBroken |-> bp.toggleBroken,
     dropdownBroken |-> bp.dropdownBroken /= "",
     opacityBroken |-> bp.opacityBroken /= NoValue,
     scaleBroken |-> bp.scaleBroken /= NoValue]

\* bp with the satisfied dimensions deleted (textBroken set to null)
\* a variant that clears every dimension it tests
PruneTested(bp, sat) == [emptyBrokenProps EXCEPT !.orderIndex = bp.orderIndex]

Prune(bp, sat) ==
    [clickBroken |-> bp.clickBroken /\ ~sat.clickBroken,
     rotateBroken |-> IF sat.rotateBroken THEN 0 ELSE bp.rotateBroken,
     textBroken |-> IF sat.textBroken THEN <<>> ELSE bp.textBroken,
     colorWrong |-> IF sat.colorWrong THEN <<>> ELSE bp.colorWrong,
     orderIndex |-> bp.orderIndex,
     blur |-> bp.blur /\ ~sat.blur,
     disabled |-> bp.disabled /\ ~sat.disabled,
     sliderBroken |-> IF sat.sliderBroken THEN NoValue ELSE bp.sliderBroken,
     checkboxBroken |-> bp.checkboxBroken /\ ~sat.checkboxBroken,
     toggleBroken |-> bp.toggleBroken /\ ~sat.toggleBroken,
     dropdownBroken |-> IF sat.dropdownBroken THEN "" ELSE bp.dropdownBroken,
     opacityBroken |-> IF sat.opacityBroken THEN NoValue ELSE bp.opacityBroken,
     scaleBroken |-> IF sat.scaleBroken THEN NoValue ELSE bp.scaleBroken]

\* Object.values(bp).every(v => !v || (typeof v === 'number' && v === 0))
EveryValueFalsy(bp) ==
    /\ ~bp.clickBroken
    /\ bp.rotateBroken = 0
    /\ bp.textBroken = <<>>
    /\ bp.colorWrong = <<>>
    /\ ~Truthy(bp.orderIndex)
    /\ ~bp.blur
    /\ ~bp.disabled
    /\ ~Truthy(bp.sliderBroken)
    /\ ~bp.checkboxBroken
    /\ ~bp.toggleBroken
    /\ bp.dropdownBroken = ""
    /\ ~Truthy(bp.opacityBroken)
    /\ ~Truthy(bp.scaleBroken)

\* fixAttempt: the body of s.elements.map for the element whose id matches
VerifyElement(el, payload) ==
    LET newUi == MergeUi(el.ui, payload)
        sat == Satisfied(el.bp, newUi)
        tested == Tested(el.bp)
        bp == Prune(el.bp, sat)
        fixed == \A k \in DOMAIN tested : tested[k] => sat[k]
        nowFixed == fixed /\ EveryValueFalsy(bp)
    IN  [el EXCEPT !.ui = newUi, !.bp = bp, !.fixed = nowFixed]

\* fixAttempt: s.elements.map(...)
VerifyElements(els, id, payload) ==
    [k \in 1..Len(els) |-> IF els[k].id = id THEN VerifyElement(els[k], payload)
                           ELSE els[k]]

(***************************************************************************)
(* checkOrderTasks.                                                        *)
(***************************************************************************)
HasOrderTarget(e) == e.bp.orderIndex /= NoIndex

\* requiredMap: position -> id; of two elements with one target the later
\* in the array wins (Map.set)
requiredMap(els) ==
    LET targets == {els[k].bp.orderIndex : k \in {j \in 1..Len(els) : HasOrderTarget(els[j])}}
        lastAt(p) == CHOOSE k \in 1..Len(els) :
                        /\ els[k].bp.orderIndex = p
                        /\ \A j \in 1..Len(els) : els[j].bp.orderIndex = p => j <= k
    IN  [p \in targets |-> els[lastAt(p)].id]

\* the 0-based place of els[k] in [...elements].sort by ui.orderIndex (stable)
SortedPlace(els, k) ==
    Cardinality({j \in 1..Len(els) :
        \/ els[j].ui.orderIndex < els[k].ui.orderIndex
        \/ (els[j].ui.orderIndex = els[k].ui.orderIndex /\ j < k)})

\* sorted[i].id
SortedId(els, i) == els[CHOOSE k \in 1..Len(els) : SortedPlace(els, k) = i].id

\* allGood: every position i < sorted.length the map names holds the id
allGood(els) ==
    LET req == requiredMap(els)
    IN  \A i \in 0..(Len(els) - 1) : i \in DOMAIN req => req[i] = SortedId(els, i)

\* a variant that gives partial credit: each element is judged by its own place
\* a variant that leaves the order check out
checkOrderTasksSkipped(els) == els

checkOrderTasksPartial(els) ==
    [k \in 1..Len(els) |->
        IF HasOrderTarget(els[k])
        THEN [els[k] EXCEPT !.fixed = SortedPlace(els, k) = els[k].bp.orderIndex]
        ELSE els[k]]

\* checkOrderTasks(elements)
checkOrderTasks(els) ==
    IF \A k \in 1..Len(els) : ~HasOrderTarget(els[k]) THEN els
    ELSE LET marked(good) ==
                 [k \in 1..Len(els) |->
                    IF HasOrderTarget(els[k]) THEN [els[k] EXCEPT !.fixed = good]
                    ELSE els[k]]
         IN  marked(allGood(els))

FixedCount(els) == Cardinality({k \in 1..Len(els) : els[k].fixed})
AllFixed(els) == \A k \in 1..Len(els) : els[k].fixed

(***************************************************************************)
(* Scoring, achievements, finishLevel.                                     *)
(***************************************************************************)
NoMessage == <<"none", "">>

\* fixAttempt: the combo after a repair
NextCombo(combo, timeSinceLast) ==
    IF timeSinceLast < ComboWindow /\ combo > 0 THEN combo + 1 ELSE 1

\* fixAttempt: Math.floor(perElementBase * (newCombo * 0.25)) if newCombo > 1
ComboBonus(level, newCombo) ==
    IF newCombo > 1 THEN (100 * level * newCombo * 25) \div 100 ELSE 0

\* fixAttempt: gained = (diff * perElementBase + comboBonus + timeBonus) * multiplier
Gained(diff, level, newCombo, timeLeft, doubleActive) ==
    (diff * (100 * level) + ComboBonus(level, newCombo) + timeLeft * 2)
        * (IF doubleActive THEN 2 ELSE 1)

\* a variant that keeps only the latest combo
NewMaxComboLatest(maxCombo, newCombo) == newCombo

\* fixAttempt: maxCombo = Math.max(s.maxCombo, newCombo)
NewMaxCombo(maxCombo, newCombo) == Max(maxCombo, newCombo)

\* checkAchievements: the switch over a.id
Earned(a, st) ==
    CASE a = "first_fix" -> st.totalFixed >= 1
      [] a = "combo_5" -> st.maxCombo >= 5
      [] a = "speed_demon" -> st.level > 1 /\ st.timeLeft > 60
      [] a = "perfectionist" -> AllFixed(st.elements) /\ st.hintsUsed = 0
      [] a = "level_5" -> st.level >= 5
      [] a = "score_1000" -> st.score >= 1000

\* a variant that evaluates the condition of an unlocked achievement again
EvalAchievementAgain(a, cur, st) ==
    [unlocked |-> Earned(a, st),
     progress |-> IF a = "score_1000" THEN st.score ELSE cur.progress]

\* checkAchievements: the entry of achievement a in state.achievements.map
EvalAchievement(a, cur, st) ==
    IF cur.unlocked THEN cur
    ELSE [unlocked |-> Earned(a, st),
          progress |-> IF a = "score_1000" THEN st.score ELSE cur.progress]

\* checkAchievements(state): the state it publishes, { ...state, achievements }
checkAchievements(st) ==
    [st EXCEPT !.achievements =
        [a \in AchievementIds |-> EvalAchievement(a, st.achievements[a], st)]]

\* checkAchievements(state): the achievements it schedules a notice for
NewlyUnlocked(st) ==
    LET new(a) == ~st.achievements[a].unlocked /\ Earned(a, st)
    IN  SelectSeq(achievementOrder, new)

\* a variant that awards no combo bonus
FinalScoreTimeOnly(st, success) ==
    st.score + (IF success THEN st.timeLeft * TimeBonusPerSecond ELSE 0)

\* finishLevel: finalScore
FinalScore(st, success) ==
    st.score + (IF success THEN st.timeLeft * TimeBonusPerSecond ELSE 0)
             + (IF success THEN st.maxCombo * ComboBonusPerStep ELSE 0)

\* finishLevel: the state of its own state$.next
FinishPublished(st, success) ==
    [st EXCEPT !.running = FALSE,
               !.message = <<IF success THEN "complete" ELSE "timeup", "">>,
               !.score = FinalScore(st, success),
               !.level = IF success THEN st.level + 1 ELSE st.level,
               !.combo = 0]

\* finishLevel: the state it hands to checkAchievements,
\* { ...s, score: finalScore, level: nextLevel }
FinishEvaluated(st, success) ==
    [st EXCEPT !.score = FinalScore(st, success),
               !.level = IF success THEN st.level + 1 ELSE st.level]

\* finishLevel(success, message) on state$.value = st: the last state it
\* publishes is the one checkAchievements publishes
finishLevel(st, success) == checkAchievements(FinishEvaluated(st, success))

\* a variant that marks the element fixed and leaves its brokenProps
autoFixElementKeepDefects(els, id) ==
    [k \in 1..Len(els) |->
        IF els[k].id /= id THEN els[k] ELSE [els[k] EXCEPT !.fixed = TRUE]]

\* autoFixElement(elements, id)
autoFixElement(els, id) ==
    [k \in 1..Len(els) |->
        IF els[k].id /= id THEN els[k]
        ELSE LET bp == els[k].bp
                 ui == els[k].ui
             IN [els[k] EXCEPT
                   !.ui = [ui EXCEPT
                      !.rotation = IF bp.rotateBroken /= 0 THEN bp.rotateBroken ELSE @,
                      !.currentText = IF bp.textBroken /= <<>> THEN bp.textBroken ELSE @,
                      !.currentColor = IF bp.colorWrong /= <<>> THEN bp.colorWrong ELSE @,
                      !.blurred = IF bp.blur THEN FALSE ELSE @,
                      !.disabled = IF bp.disabled THEN FALSE ELSE @,
                      !.sliderValue = IF Truthy(bp.sliderBroken) THEN bp.sliderBroken ELSE @,
                      !.checked = IF bp.checkboxBroken THEN TRUE ELSE @,
                      !.toggleState = IF bp.toggleBroken THEN TRUE ELSE @,
                      !.selectedOption = IF bp.dropdownBroken /= "" THEN bp.dropdownBroken ELSE @,
                      !.opacity = IF Truthy(bp.opacityBroken) THEN bp.opacityBroken ELSE @,
                      !.scale = IF Truthy(bp.scaleBroken) THEN bp.scaleBroken ELSE @],
                   !.fixed = TRUE,
                   !.bp = emptyBrokenProps]]

\* elements.find(e => !e.fixed): the index of the first unfixed element, 0 if none
FirstUnfixed(els) ==
    IF AllFixed(els) THEN 0
    ELSE CHOOSE k \in 1..Len(els) : ~els[k].fixed /\ \A j \in 1..(k - 1) : els[j].fixed

\* elements.find(e => e.id === id): the index of the first match, 0 if none
FindById(els, id) ==
    IF \A k \in 1..Len(els) : els[k].id /= id THEN 0
    ELSE CHOOSE k \in 1..Len(els) : els[k].id = id /\ \A j \in 1..(k - 1) : els[j].id /= id

(***************************************************************************)
(* Timers of the browser.                                                  *)
(***************************************************************************)
\* a variant of clearInterval that cancels nothing
KeptIntervals == intervals

\* intervals without the one this.timer names
ClearedIntervals ==
    IF timer = 0 THEN intervals
    ELSE [k \in 1..(Len(intervals) - 1) |->
            IF k < timer THEN intervals[k] ELSE intervals[k + 1]]

\* the time startLevel gives the level
\* a variant without the floor at 30 seconds
LevelTimeNoFloor(level) == initialTimeBase - (level - 1) * LevelTimeStep

LevelTime(level) == Max(MinTime, initialTimeBase - (level - 1) * LevelTimeStep)

\* Date.now() at construction: long after time 0
Epoch == ComboWindow

(***************************************************************************)
(* The classic-mode GameService (services/game.service.ts).  Its elements  *)
(* are records of the same shape; the keys classic mode does not have      *)
(* (checkbox, toggle, dropdown, opacity, scale) stay "not there".          *)
(***************************************************************************)
classicInitialTimeBase == 60
classicMinTime == 20
classicLevelTimeStep == 10
classicBaseCount == 3
classicRepairBase == 150
classicTimeFactor == 3
classicFinishFactor == 10
classicLevelCap == 3

\* generateLevel: the defect kinds classic mode picks from
classicOpts ==
    <<"clickBroken", "rotateBroken", "textBroken", "colorWrong", "blur", "disabled",
      "sliderBroken", "orderIndex">>

\* generateLevel: count = 3 + level * 2
classicElementCount(level) == classicBaseCount + level * 2

\* generateLevel: the largest pickCount, min(2, level)
classicMaxPickCount(level) == Min(2, level)

\* generateLevel(level) with the random draws of the run given as rnd
classicGenerateLevel(level, rnd) ==
    LET count == classicElementCount(level)
        made == [k \in 1..count |-> NewElement(k - 1, rnd.picks[k], count)]
    IN  ReindexOrder(Shuffle(made, count - 1, rnd.swaps))

\* rnd is a run of draws the classic generateLevel(level) can make
classicValidDraws(level, rnd) ==
    LET count == classicElementCount(level)
    IN  /\ Len(rnd.picks) = count
        /\ Len(rnd.swaps) = count - 1
        /\ \A k \in 1..count :
              /\ Len(rnd.picks[k]) \in 1..classicMaxPickCount(level)
              /\ \A a \in 1..Len(rnd.picks[k]) :
                    /\ \E o \in 1..Len(classicOpts) : classicOpts[o] = rnd.picks[k][a].k
                    /\ DrawInRange(rnd.picks[k][a], count)
                    /\ \A b \in 1..Len(rnd.picks[k]) :
                          a /= b => rnd.picks[k][a].k /= rnd.picks[k][b].k
        /\ \A i \in 1..(count - 1) : rnd.swaps[i] \in 0..i

\* fixAttempt: the rotate test of classic mode
classicRotateSatisfied(rotation, rotateBroken) ==
    LET need == (JsRem(rotateBroken, 360) + 360) % 360
        cur == JsRem(rotation, 360)
        diff == Abs(cur - need)
    IN  diff <= 15 \/ Abs(diff - 360) <= 15

\* fixAttempt: the slider test of classic mode, cur === bp.sliderBroken
classicSliderSatisfied(sliderValue, sliderBroken) == sliderValue = sliderBroken

\* fixAttempt: the dimensions of bp the merged ui satisfies
classicSatisfied(bp, ui) ==
    [clickBroken |-> bp.clickBroken /\ ui.clicked,
     rotateBroken |-> /\ bp.rotateBroken /= 0
                      /\ JsRem(bp.rotateBroken, 360) /= 0
                      /\ classicRotateSatisfied(ui.rotation, bp.rotateBroken),
     textBroken |-> bp.textBroken /= <<>> /\ textMatches(ui.currentText, bp.textBroken),
     colorWrong |-> bp.colorWrong /= <<>> /\ colorsMatch(ui.currentColor, bp.colorWrong),
     blur |-> bp.blur /\ ~ui.blurred,
     disabled |-> bp.disabled /\ ~ui.disabled,
     sliderBroken |-> /\ bp.sliderBroken /= NoValue
                      /\ classicSliderSatisfied(ui.sliderValue, bp.sliderBroken)]

\* fixAttempt: the dimensions of bp whose test the code enters
classicTested(bp) ==
    [clickBroken |-> bp.clickBroken,
     rotateBroken |-> bp.rotateBroken /= 0 /\ JsRem(bp.rotateBroken, 360) /= 0,
     textBroken |-> bp.textBroken /= <<>>,
     colorWrong |-> bp.colorWrong /= <<>>,
     blur |-> bp.blur,
     disabled |-> bp.disabled,
     sliderBroken |-> bp.sliderBroken /= NoValue]

\* fixAttempt: bp with the satisfied dimensions deleted
classicPrune(bp, sat) ==
    [bp EXCEPT !.clickBroken = @ /\ ~sat.clickBroken,
               !.rotateBroken = IF sat.rotateBroken THEN 0 ELSE @,
               !.textBroken = IF sat.textBroken THEN <<>> ELSE @,
               !.colorWrong = IF sat.colorWrong THEN <<>> ELSE @,
               !.blur = @ /\ ~sat.blur,
               !.disabled = @ /\ ~sat.disabled,
               !.sliderBroken = IF sat.sliderBroken THEN NoValue ELSE @]

\* Object.values(bp).every(v => !v || (typeof v === 'number' && v === 0))
classicEveryValueFalsy(bp) ==
    /\ ~bp.clickBroken
    /\ bp.rotateBroken = 0
    /\ bp.textBroken = <<>>
    /\ bp.colorWrong = <<>>
    /\ ~Truthy(bp.orderIndex)
    /\ ~bp.blur
    /\ ~bp.disabled
    /\ ~Truthy(bp.sliderBroken)

\* fixAttempt: the body of s.elements.map for the element whose id matches
classicVerifyElement(el, payload) ==
    LET newUi == MergeUi(el.ui, payload)
        sat == classicSatisfied(el.bp, newUi)
        tested == classicTested(el.bp)
        bp == classicPrune(el.bp, sat)
        fixed == \A k \in DOMAIN tested : tested[k] => sat[k]
        nowFixed == fixed /\ classicEveryValueFalsy(bp)
    IN  [el EXCEPT !.ui = newUi, !.bp = bp, !.fixed = nowFixed]

\* fixAttempt: s.elements.map(...)
classicVerifyElements(els, id, payload) ==
    [k \in 1..Len(els) |-> IF els[k].id = id THEN classicVerifyElement(els[k], payload)
                           ELSE els[k]]

\* checkOrderTasks(elements) of classic mode: when the order is good, every
\* element is returned fixed
classicCheckOrderTasks(els) ==
    IF \A k \in 1..Len(els) : ~HasOrderTarget(els[k]) THEN els
    ELSE IF allGood(els) THEN [k \in 1..Len(els) |-> [els[k] EXCEPT !.fixed = TRUE]]
    ELSE els

\* fixAttempt: gained = diff * perElementBase + Math.floor(s.timeLeft * 3)
classicGained(diff, level, timeLeft) ==
    diff * (classicRepairBase * level) + timeLeft * classicTimeFactor

\* finishLevel(success, message)
classicFinishLevel(s, success) ==
    [s EXCEPT !.running = FALSE,
              !.message = IF success THEN <<"cleared", "bonus">> ELSE <<"timeup", "">>,
              !.score = @ + (IF success THEN s.timeLeft * classicFinishFactor ELSE 0),
              !.level = IF success THEN Min(classicLevelCap, @ + 1) ELSE @]

\* the time startLevel gives the level
classicLevelTime(level) ==
    Max(classicMinTime, classicInitialTimeBase - (level - 1) * classicLevelTimeStep)

\* the service after construction
classicInit ==
    [state |-> [score |-> 0, level |-> 1, timeLeft |-> classicInitialTimeBase,
                running |-> FALSE, elements |-> <<>>, message |-> NoMessage,
                hintsUsed |-> 0],
     timer |-> NoTimer]

(***************************************************************************)
(* Simple mode: SimpleModeService (simple-mode/simple-mode.service.ts).    *)
(* A defect is [id, type, fixed, ui]; its id `defect-${i}` is the integer  *)
(* i.  The optional ui object is a record whose field `has` is the set of  *)
(* keys the object carries (empty when ui is undefined); a key it does not *)
(* carry reads as the default the code substitutes with `|| 0`.  The x and *)
(* y of a defect only place it on the board and are left out.              *)
(***************************************************************************)
DefectCount == 10
LastLevel == 5
WheelStep == 2
WheelFull == 100
FullTurn == 360
NoDefect == -1

NoUi == [has |-> {}, rotation |-> 0, wheelProgress |-> 0, connected |-> FALSE]
ScrewUi == [NoUi EXCEPT !.has = {"rotation", "wheelProgress"}]
WireUi == [NoUi EXCEPT !.has = {"connected"}]

\* the type generateLevel gives defect i of a level; rand is Math.random()
\* in hundredths (levels 1 and 2 draw no number for the type)
DefectType(level, i, rand) ==
    CASE level = 1 -> "simple"
      [] level = 2 -> IF i < 5 THEN "simple" ELSE "crack"
      [] level = 3 -> IF rand < 30 THEN "simple"
                      ELSE IF rand < 60 THEN "crack" ELSE "screw"
      [] level = 4 -> IF rand < 30 THEN "simple"
                      ELSE IF rand < 50 THEN "crack"
                      ELSE IF rand < 70 THEN "screw" ELSE "wire"
      [] level = 5 -> IF rand < 20 THEN "simple"
                      ELSE IF rand < 35 THEN "crack"
                      ELSE IF rand < 50 THEN "screw"
                      ELSE IF rand < 70 THEN "wire" ELSE "paint"
      [] OTHER -> "simple"

\* generateLevel(level); rnd[i + 1] is the draw for defect i
simpleGenerateLevel(level, rnd) ==
    [k \in 1..DefectCount |->
        [id |-> k - 1,
         type |-> DefectType(level, k - 1, rnd[k]),
         fixed |-> FALSE,
         ui |-> CASE DefectType(level, k - 1, rnd[k]) = "screw" -> ScrewUi
                  [] DefectType(level, k - 1, rnd[k]) = "wire" -> WireUi
                  [] OTHER -> NoUi]]

\* the value startLevel(level) publishes
simpleStartLevel(level, rnd) ==
    [level |-> level, defects |-> simpleGenerateLevel(level, rnd),
     levelComplete |-> FALSE]

\* state.defects.find(d => d.id === id): its place in the list, 0 if none
DefectAt(s, id) ==
    IF \E k \in 1..Len(s.defects) : s.defects[k].id = id
    THEN CHOOSE k \in 1..Len(s.defects) : s.defects[k].id = id
    ELSE 0

AllDefectsFixed(defects) == \A k \in 1..Len(defects) : defects[k].fixed

\* hitDefect's map over the defects: the unfixed defect of that id is fixed
MarkHit(s, defectId) ==
    [s EXCEPT !.defects = [k \in 1..Len(s.defects) |->
                            IF s.defects[k].id = defectId /\ ~s.defects[k].fixed
                            THEN [s.defects[k] EXCEPT !.fixed = TRUE]
                            ELSE s.defects[k]]]

\* a hitDefect that leaves levelComplete as it was
hitDefectKeepsFlag(s, defectId) == MarkHit(s, defectId)

\* the value hitDefect(defectId) publishes; it publishes on every call, and
\* defects.every(d => d.fixed) is true of the empty list
hitDefect(s, defectId) ==
    [MarkHit(s, defectId) EXCEPT
        !.levelComplete = AllDefectsFixed(MarkHit(s, defectId).defects)]

\* handleWheelOnDefect returns before publishing unless this holds
WheelApplies(s, defectId) ==
    /\ DefectAt(s, defectId) /= 0
    /\ ~s.defects[DefectAt(s, defectId)].fixed
    /\ s.defects[DefectAt(s, defectId)].type = "screw"

\* the value handleWheelOnDefect(defectId, deltaY) publishes when it applies;
\* deltaY is even, so that Math.abs(deltaY) * 0.5 is whole
handleWheelOnDefect(s, defectId, deltaY) ==
    [s EXCEPT !.defects = [k \in 1..Len(s.defects) |->
        IF s.defects[k].id = defectId
        THEN [s.defects[k] EXCEPT
                !.ui = [@ EXCEPT
                    !.has = @ \cup {"rotation", "wheelProgress"},
                    !.rotation = (@ + Abs(deltaY) \div 2) % FullTurn,
                    !.wheelProgress = Min(WheelFull, @ + WheelStep)]]
        ELSE s.defects[k]]]

\* the value connectWires(wire1Id, wire2Id) publishes; it publishes on every
\* call and tests neither the type nor the fixed flag of what it marks
connectWires(s, wire1Id, wire2Id) ==
    [s EXCEPT !.defects = [k \in 1..Len(s.defects) |->
        IF s.defects[k].id = wire1Id \/ s.defects[k].id = wire2Id
        THEN [s.defects[k] EXCEPT
                !.ui = [@ EXCEPT !.has = @ \cup {"connected"},
                                 !.connected = TRUE]]
        ELSE s.defects[k]]]

\* the service's first value and the component's fields before ngOnInit:
\* subscribed is whether ngOnInit's subscription to state$ exists, tracking
\* the tracker running for the hovered defect ("none" if none), timers
\* the pending setTimeout callbacks, oldest first, with the time left to
\* each in units of 100 ms
simpleInit ==
    [state |-> [level |-> 1, defects |-> <<>>, levelComplete |-> FALSE],
     subscribed |-> FALSE,
     currentLevel |-> 1,
     hoveredDefect |-> NoDefect,
     tracking |-> "none",
     timers |-> <<>>]

(***************************************************************************)
(* Simple mode: SimpleModeComponent (simple-mode/simple-mode.component.ts, *)
(* the first of the two copies of the class in that file) and the calls it *)
(* makes on the service.  Time is counted in units of 100 ms.  The hold,   *)
(* circular and paint trackers are setInterval loops over DOM geometry:    *)
(* the model keeps which tracker runs for the hovered defect and lets it   *)
(* reach 100 % at any moment.  The callbacks that only write to the        *)
(* console, and currentToolType, which only selects a picture, are left    *)
(* out.                                                                    *)
(***************************************************************************)
HitDelay == 1
AdvanceDelay == 20
InitDelay == 2
MaxCallbacks == 2     \* gesture callbacks pending at once

others == <<state, timer, intervals, lastFixTime, comboTimeout, timeouts,
            notices, now, gamesPlayed, classic>>

PendingTimer(kind, id, left) == [kind |-> kind, id |-> id, left |-> left]

\* stateSubject$.next(s), and with it the subscriber ngOnInit installs: it
\* copies the level and, for a complete level below the last, schedules
\* nextLevel in 2 s without keeping or cancelling any earlier handle
Publish(c, s) ==
    [c EXCEPT !.state = s,
              !.currentLevel = IF c.subscribed THEN s.level ELSE @,
              !.timers = IF c.subscribed /\ s.levelComplete /\ s.level < LastLevel
                         THEN Append(@, PendingTimer("advance", NoDefect, AdvanceDelay))
                         ELSE @]

\* calls on the service
SimpleStartLevel(level, rnd) ==
    /\ simple' = Publish(simple, simpleStartLevel(level, rnd))
    /\ UNCHANGED others

HitDefect(defectId) ==
    /\ simple' = Publish(simple, hitDefect(simple.state, defectId))
    /\ UNCHANGED others

HandleWheelOnDefect(defectId, deltaY) ==
    /\ simple' = IF WheelApplies(simple.state, defectId)
                 THEN Publish(simple, handleWheelOnDefect(simple.state, defectId, deltaY))
                 ELSE simple
    /\ UNCHANGED others

ConnectWires(wire1Id, wire2Id) ==
    /\ simple' = Publish(simple, connectWires(simple.state, wire1Id, wire2Id))
    /\ UNCHANGED others

\* nextLevel() on component c
nextLevel(c, rnd) ==
    IF c.state.level < LastLevel
    THEN Publish(c, simpleStartLevel(c.state.level + 1, rnd))
    ELSE c

NextLevel(rnd) ==
    /\ simple' = nextLevel(simple, rnd)
    /\ UNCHANGED others

\* ngOnInit: startLevel(1) and the subscription wait 200 ms
NgOnInit ==
    /\ simple = simpleInit
    /\ simple' = [simple EXCEPT !.timers = <<PendingTimer("init", NoDefect, InitDelay)>>]
    /\ UNCHANGED others

\* the pending callback the event loop runs next: the oldest one that is due
IsDue(k) ==
    /\ simple.timers[k].left = 0
    /\ \A j \in 1..(k - 1) : simple.timers[j].left > 0

Without(seq, k) == SubSeq(seq, 1, k - 1) \o SubSeq(seq, k + 1, Len(seq))

\* time passes up to the next pending callback
Elapse ==
    /\ simple.timers /= <<>>
    /\ \A k \in 1..Len(simple.timers) : simple.timers[k].left > 0
    /\ \E d \in {simple.timers[k].left : k \in 1..Len(simple.timers)} :
        /\ \A k \in 1..Len(simple.timers) : d <= simple.timers[k].left
        /\ simple' = [simple EXCEPT !.timers =
                        [k \in 1..Len(simple.timers) |->
                            [simple.timers[k] EXCEPT !.left = @ - d]]]
    /\ UNCHANGED others

\* ngOnInit's callback: startLevel(1), then subscribe; the BehaviorSubject
\* hands the subscriber its current value at once
FireInit(rnd) ==
    \E k \in 1..Len(simple.timers) :
        /\ IsDue(k)
        /\ simple.timers[k].kind = "init"
        /\ \E c \in {[simple EXCEPT !.timers = Without(@, k)]} :
           \E started \in {Publish(c, simpleStartLevel(1, rnd))} :
            simple' = Publish([started EXCEPT !.subscribed = TRUE], started.state)
        /\ UNCHANGED others

\* onMouseWheel's callback: hitDefect(this.hoveredDefect!) with whatever is
\* hovered when it runs, and no look at the defect
FireHit ==
    \E k \in 1..Len(simple.timers) :
        /\ IsDue(k)
        /\ simple.timers[k].kind = "hit"
        /\ \E c \in {[simple EXCEPT !.timers = Without(@, k)]} :
            simple' = Publish(c, hitDefect(c.state, c.hoveredDefect))
        /\ UNCHANGED others

\* the callbacks of the hold, circular and paint trackers: hitDefect only
\* for a defect that exists and is not fixed, and for hold and circular
\* only while it is still hovered
FireTracked ==
    \E k \in 1..Len(simple.timers) :
        /\ IsDue(k)
        /\ simple.timers[k].kind \in {"hold", "circular", "paint"}
        /\ \E t \in {simple.timers[k]} :
           \E c \in {[simple EXCEPT !.timers = Without(@, k)]} :
            simple' = IF /\ DefectAt(c.state, t.id) /= 0
                         /\ ~c.state.defects[DefectAt(c.state, t.id)].fixed
                         /\ (t.kind = "paint" \/ c.hoveredDefect = t.id)
                      THEN Publish(c, hitDefect(c.state, t.id))
                      ELSE c
        /\ UNCHANGED others

\* the subscriber's callback: nextLevel()
FireAdvance(rnd) ==
    \E k \in 1..Len(simple.timers) :
        /\ IsDue(k)
        /\ simple.timers[k].kind = "advance"
        /\ simple' = nextLevel([simple EXCEPT !.timers = Without(@, k)], rnd)
        /\ UNCHANGED others

\* the tracker checkDefectHover starts for a defect of that type
TrackerFor(type, level) ==
    CASE type = "crack" -> "hold"
      [] type = "screw" -> "circular"
      [] type = "paint" -> "paint"
      [] type = "simple" /\ level = 1 -> "paint"
      [] OTHER -> "none"

\* checkDefectHover with the tool over defect defectId, not hovered before
Hover(defectId) ==
    /\ DefectAt(simple.state, defectId) /= 0
    /\ defectId /= simple.hoveredDefect
    /\ \E d \in {simple.state.defects[DefectAt(simple.state, defectId)]} :
        simple' = [simple EXCEPT
            !.hoveredDefect = defectId,
            !.tracking = IF d.fixed THEN "none"
                         ELSE TrackerFor(d.type, simple.currentLevel)]
    /\ UNCHANGED others

\* checkDefectHover with the tool over no defect: the hovered id is dropped
\* only if its defect is gone, fixed or a wire
HoverNone ==
    /\ simple.hoveredDefect /= NoDefect
    /\ \/ DefectAt(simple.state, simple.hoveredDefect) = 0
       \/ simple.state.defects[DefectAt(simple.state, simple.hoveredDefect)].fixed
       \/ simple.state.defects[DefectAt(simple.state, simple.hoveredDefect)].type = "wire"
    /\ simple' = [simple EXCEPT !.hoveredDefect = NoDefect, !.tracking = "none"]
    /\ UNCHANGED others

GesturesPending ==
    Cardinality({k \in 1..Len(simple.timers) :
                    simple.timers[k].kind \in {"hit", "hold", "circular", "paint"}})

\* the running tracker reaches 100 %: it stops and schedules its callback
TrackerDone ==
    /\ simple.tracking /= "none"
    /\ GesturesPending < MaxCallbacks
    /\ simple' = [simple EXCEPT
            !.tracking = "none",
            !.timers = Append(@, PendingTimer(simple.tracking, simple.hoveredDefect, HitDelay))]
    /\ UNCHANGED others

\* checkDefectClick on mouse up, then clearHoldTimer; ready is whether the
\* gesture progress the type asks for (paint, hold, circular) is at 100 %
CheckDefectClick(ready) ==
    /\ simple.hoveredDefect /= NoDefect
    /\ \E at \in {DefectAt(simple.state, simple.hoveredDefect)} :
       \E c \in {[simple EXCEPT !.tracking = IF @ = "hold" THEN "none" ELSE @]} :
        simple' =
            IF at = 0 \/ simple.state.defects[at].fixed
            THEN c
            ELSE IF CASE simple.state.defects[at].type = "simple" ->
                           simple.currentLevel /= 1 \/ ready
                      [] simple.state.defects[at].type = "screw" ->
                           ready \/ simple.state.defects[at].ui.wheelProgress >= WheelFull
                      [] simple.state.defects[at].type = "wire" ->
                           simple.state.defects[at].ui.connected
                      [] OTHER -> ready
                 THEN Publish(c, hitDefect(c.state, c.hoveredDefect))
                 ELSE c
    /\ UNCHANGED others

\* onMouseWheel(event) with event.deltaY = deltaY
OnMouseWheel(deltaY) ==
    /\ simple.hoveredDefect /= NoDefect
    /\ GesturesPending < MaxCallbacks
    /\ \E c \in {IF WheelApplies(simple.state, simple.hoveredDefect)
                 THEN Publish(simple, handleWheelOnDefect(simple.state,
                                          simple.hoveredDefect, deltaY))
                 ELSE simple} :
       \E at \in {DefectAt(c.state, c.hoveredDefect)} :
        simple' = IF /\ at /= 0
                     /\ c.state.defects[at].type = "screw"
                     /\ ~c.state.defects[at].fixed
                     /\ c.state.defects[at].ui.wheelProgress >= WheelFull
                  THEN [c EXCEPT !.timers =
                            Append(@, PendingTimer("hit", NoDefect, HitDelay))]
                  ELSE c
    /\ UNCHANGED others

\* what onWireDrop asks of the dragged wire and of the wire dropped on
IsFreeWire(s, id) ==
    /\ DefectAt(s, id) /= 0
    /\ s.defects[DefectAt(s, id)].type = "wire"
    /\ ~s.defects[DefectAt(s, id)].fixed
    /\ ~s.defects[DefectAt(s, id)].ui.connected

\* onWireDrop(event, targetDefect) with the id sourceId in the drag data and
\* the rendered defect targetId as the target
OnWireDrop(sourceId, targetId) ==
    /\ DefectAt(simple.state, targetId) /= 0
    /\ simple' = IF /\ IsFreeWire(simple.state, targetId)
                    /\ sourceId /= targetId
                    /\ IsFreeWire(simple.state, sourceId)
                 THEN Publish(simple, connectWires(simple.state, sourceId, targetId))
                 ELSE simple
    /\ UNCHANGED others

(***************************************************************************)
(* The initial state: the BehaviorSubject's first value, no timer.         *)
(***************************************************************************)
Init ==
    /\ state = [score |-> 0, level |-> 1, timeLeft |-> initialTimeBase,
                running |-> FALSE, elements |-> <<>>, message |-> NoMessage,
                hintsUsed |-> 0, combo |-> 0, maxCombo |-> 0, totalFixed |-> 0,
                powerUps |-> initPowerUps, achievements |-> initAchievements]
    /\ timer = 0
    /\ intervals = <<>>
    /\ lastFixTime = 0
    /\ comboTimeout = NoTimer
    /\ timeouts = {}
    /\ notices = <<>>
    /\ now = Epoch
    /\ gamesPlayed = 0
    /\ classic = classicInit
    /\ simple = simpleInit

(***************************************************************************)
(* Handlers.                                                               *)
(***************************************************************************)
\* startLevel(level), the generator drawing rnd
StartLevel(level, rnd) ==
    /\ ValidDraws(level, rnd)
    /\ state' = [state EXCEPT !.level = level,
                              !.timeLeft = LevelTime(level),
                              !.running = TRUE,
                              !.elements = generateLevel(level, rnd),
                              !.hintsUsed = 0,
                              !.combo = 0,
                              !.message = NoMessage,
                              !.powerUps = [p \in PowerUpIds |-> FALSE]]
    /\ intervals' = Append(ClearedIntervals, now + TickPeriod)
    /\ timer' = Len(intervals')
    /\ gamesPlayed' = gamesPlayed + 1
    /\ UNCHANGED <<lastFixTime, comboTimeout, timeouts, notices, now, classic, simple>>

\* the setInterval callback of runTimer, for the interval at index i
Tick(i) ==
    /\ i \in 1..Len(intervals)
    /\ intervals[i] <= now
    /\ LET frozen == state.powerUps["freeze"]
           expire == state.running /\ ~frozen /\ state.timeLeft <= 1
           rearmed == [intervals EXCEPT ![i] = @ + TickPeriod]
       IN  IF expire
           THEN /\ state' = finishLevel(state, FALSE)
                /\ notices' = notices \o NewlyUnlocked(FinishEvaluated(state, FALSE))
                /\ intervals' = IF timer = 0 THEN rearmed
                                ELSE [k \in 1..(Len(intervals) - 1) |->
                                        IF k < timer THEN rearmed[k] ELSE rearmed[k + 1]]
                /\ timer' = 0
                /\ comboTimeout' = NoTimer
           ELSE /\ state' = IF state.running /\ ~frozen
                            THEN [state EXCEPT !.timeLeft = @ - 1]
                            ELSE state
                /\ intervals' = rearmed
                /\ UNCHANGED <<timer, comboTimeout, notices>>
    /\ UNCHANGED <<lastFixTime, timeouts, now, gamesPlayed, classic, simple>>

\* a variant of stop() that keeps the combo
StopKeepsCombo ==
    /\ state' = [state EXCEPT !.running = FALSE, !.message = <<"paused", "">>]
    /\ intervals' = ClearedIntervals
    /\ timer' = 0
    /\ comboTimeout' = NoTimer
    /\ UNCHANGED <<lastFixTime, timeouts, notices, now, gamesPlayed, classic, simple>>

\* stop()
Stop ==
    /\ state' = [state EXCEPT !.running = FALSE, !.message = <<"paused", "">>,
                              !.combo = 0]
    /\ intervals' = ClearedIntervals
    /\ timer' = 0
    /\ comboTimeout' = NoTimer
    /\ UNCHANGED <<lastFixTime, timeouts, notices, now, gamesPlayed, classic, simple>>

\* a variant without the floor at 0
HintedTimeNoFloor(timeLeft) == timeLeft - HintPenalty

\* useHint: Math.max(0, s.timeLeft - penalty)
HintedTime(timeLeft) == Max(0, timeLeft - HintPenalty)

\* a variant of useHint without the test of s.running
UseHintAnytime(id) ==
    /\ LET found == IF id /= NoId THEN FindById(state.elements, id)
                    ELSE FirstUnfixed(state.elements)
           next == [state EXCEPT
                         !.timeLeft = HintedTime(@),
                         !.hintsUsed = @ + 1,
                         !.combo = 0,
                         !.message = IF found = 0 THEN @
                                     ELSE <<IF id /= NoId THEN "hint" ELSE "hintFirst",
                                            state.elements[found].hint>>]
       IN  /\ state' = checkAchievements(next)
           /\ notices' = notices \o NewlyUnlocked(next)
    /\ UNCHANGED <<timer, intervals, lastFixTime, comboTimeout, timeouts, now,
                   gamesPlayed, classic, simple>>

\* useHint(elementId); id = NoId is the call without an argument
UseHint(id) ==
    /\ IF ~state.running
       THEN UNCHANGED <<state, notices>>
       ELSE LET found == IF id /= NoId THEN FindById(state.elements, id)
                            ELSE FirstUnfixed(state.elements)
                next == [state EXCEPT
                              !.timeLeft = HintedTime(@),
                              !.hintsUsed = @ + 1,
                              !.combo = 0,
                              !.message = IF found = 0 THEN @
                                          ELSE <<IF id /= NoId THEN "hint" ELSE "hintFirst",
                                                 state.elements[found].hint>>]
            IN  /\ state' = checkAchievements(next)
                /\ notices' = notices \o NewlyUnlocked(next)
    /\ UNCHANGED <<timer, intervals, lastFixTime, comboTimeout, timeouts, now,
                   gamesPlayed, classic, simple>>

\* a variant with the two durations swapped
DurationSwapped(p) == IF p = "freeze" THEN DoubleDuration ELSE FreezeDuration

\* the duration of a timed power-up
Duration(p) == IF p = "freeze" THEN FreezeDuration ELSE DoubleDuration

\* a variant that lets every power-up be bought
AffordableOnCredit(score, p) == TRUE

\* usePowerUp: the negation of s.score < powerUp.cost
Affordable(score, p) == score >= Cost(p)

\* usePowerUp(powerUpId)
UsePowerUp(p) ==
    /\ IF ~state.running \/ p \notin PowerUpIds \/ ~Affordable(state.score, p)
       THEN UNCHANGED <<state, timeouts>>
       ELSE LET unfixed == FirstUnfixed(state.elements)
                autofixed == p = "autofix" /\ unfixed /= 0
            IN  /\ state' = [state EXCEPT
                      !.score = @ - Cost(p),
                      !.powerUps = [q \in PowerUpIds |->
                                      IF q = p THEN p /= "autofix" ELSE @[q]],
                      !.elements = IF autofixed
                                   THEN autoFixElement(@, @[unfixed].id) ELSE @,
                      !.message = IF autofixed THEN <<"autofixed", "">>
                                  ELSE <<"activated", p>>]
                /\ timeouts' = IF p = "autofix" THEN timeouts
                               ELSE timeouts \cup {[id |-> p, due |-> now + Duration(p)]}
    /\ UNCHANGED <<timer, intervals, lastFixTime, comboTimeout, notices, now,
                   gamesPlayed, classic, simple>>

\* fixAttempt(id, payload)
FixAttempt(id, payload) ==
    /\ IF ~state.running
       THEN UNCHANGED <<state, timer, intervals, lastFixTime, comboTimeout, notices>>
       ELSE \E els \in {VerifyElements(state.elements, id, payload)} :
            \E updated \in {checkOrderTasks(els)} :
            \E diff \in {FixedCount(updated) - FixedCount(state.elements)} :
            \E newCombo \in {IF diff > 0 THEN NextCombo(state.combo, now - lastFixTime)
                             ELSE state.combo} :
            \E gained \in {IF diff > 0
                           THEN Gained(diff, state.level, newCombo, state.timeLeft,
                                       state.powerUps["double"])
                           ELSE 0} :
            \E nextState \in {[state EXCEPT
                    !.elements = updated,
                    !.score = @ + gained,
                    !.combo = newCombo,
                    !.maxCombo = NewMaxCombo(@, newCombo),
                    !.totalFixed = @ + diff,
                    !.message = IF gained /= 0
                                THEN <<"gained", IF newCombo > 1 THEN "combo" ELSE "">>
                                ELSE @]} :
            \E checked \in {checkAchievements(nextState)} :
            \E finish \in {AllFixed(updated)} :
                /\ state' = IF finish THEN finishLevel(checked, TRUE) ELSE checked
                /\ notices' = notices \o NewlyUnlocked(nextState)
                       \o (IF finish THEN NewlyUnlocked(FinishEvaluated(checked, TRUE))
                           ELSE <<>>)
                /\ lastFixTime' = IF diff > 0 THEN now ELSE lastFixTime
                /\ comboTimeout' = IF finish THEN NoTimer
                                   ELSE IF diff > 0 THEN now + ComboWindow
                                   ELSE comboTimeout
                /\ intervals' = IF finish THEN ClearedIntervals ELSE intervals
                /\ timer' = IF finish THEN 0 ELSE timer
    /\ UNCHANGED <<timeouts, now, gamesPlayed, classic, simple>>

(***************************************************************************)
(* Timer callbacks and the clock.                                          *)
(***************************************************************************)
\* the combo timeout of fixAttempt fires
\* a variant of the combo callback that also gives back the seconds that
\* passed since it was scheduled
ComboExpireStale ==
    /\ comboTimeout /= NoTimer
    /\ comboTimeout <= now
    /\ state' = [state EXCEPT !.combo = 0, !.timeLeft = @ + (now - lastFixTime)]
    /\ comboTimeout' = NoTimer
    /\ UNCHANGED <<timer, intervals, lastFixTime, timeouts, notices, now, gamesPlayed, classic, simple>>

ComboExpire ==
    /\ comboTimeout /= NoTimer
    /\ comboTimeout <= now
    /\ state' = [state EXCEPT !.combo = 0]
    /\ comboTimeout' = NoTimer
    /\ UNCHANGED <<timer, intervals, lastFixTime, timeouts, notices, now, gamesPlayed, classic, simple>>

\* the expiry timeout t of usePowerUp fires
PowerUpExpire(t) ==
    /\ t \in timeouts
    /\ t.due <= now
    /\ state' = [state EXCEPT !.powerUps[t.id] = FALSE]
    /\ timeouts' = timeouts \ {t}
    /\ UNCHANGED <<timer, intervals, lastFixTime, comboTimeout, notices, now,
                   gamesPlayed, classic, simple>>

\* the oldest notice timeout of checkAchievements fires
Notify ==
    /\ notices /= <<>>
    /\ state' = [state EXCEPT !.message = <<"achievement", Head(notices)>>]
    /\ notices' = Tail(notices)
    /\ UNCHANGED <<timer, intervals, lastFixTime, comboTimeout, timeouts, now,
                   gamesPlayed, classic, simple>>

\* no timer is due: every callback whose time has come has run
NoTimerDue ==
    /\ \A i \in 1..Len(intervals) : intervals[i] > now
    /\ comboTimeout = NoTimer \/ comboTimeout > now
    /\ \A t \in timeouts : t.due > now
    /\ notices = <<>>

\* one second passes, up to horizon seconds after construction
Advance(horizon) ==
    /\ now < Epoch + horizon
    /\ NoTimerDue
    /\ now' = now + 1
    /\ UNCHANGED <<state, timer, intervals, lastFixTime, comboTimeout, timeouts,
                   notices, gamesPlayed, classic, simple>>

(***************************************************************************)
(* Handlers of the classic-mode service.                                   *)
(***************************************************************************)
\* classic startLevel(level), the generator drawing rnd
ClassicStartLevel(level, rnd) ==
    /\ classicValidDraws(level, rnd)
    /\ classic' = [state |-> [score |-> classic.state.score,
                              level |-> level,
                              timeLeft |-> classicLevelTime(level),
                              running |-> TRUE,
                              elements |-> classicGenerateLevel(level, rnd),
                              message |-> NoMessage,
                              hintsUsed |-> 0],
                   timer |-> now + TickPeriod]
    /\ UNCHANGED <<state, timer, intervals, lastFixTime, comboTimeout, timeouts,
                   notices, now, gamesPlayed, simple>>

\* classic fixAttempt(id, payload)
ClassicFixAttempt(id, payload) ==
    /\ IF ~classic.state.running
       THEN UNCHANGED classic
       ELSE \E s \in {classic.state} :
            \E updated \in {classicCheckOrderTasks(
                               classicVerifyElements(s.elements, id, payload))} :
            \E diff \in {FixedCount(updated) - FixedCount(s.elements)} :
            \E gained \in {IF diff > 0 THEN classicGained(diff, s.level, s.timeLeft)
                           ELSE 0} :
            \E nextState \in {[s EXCEPT
                    !.elements = updated,
                    !.score = @ + gained,
                    !.message = IF gained /= 0 THEN <<"gained", "">> ELSE @]} :
                classic' = IF AllFixed(updated)
                           THEN [state |-> classicFinishLevel(nextState, TRUE),
                                 timer |-> NoTimer]
                           ELSE [classic EXCEPT !.state = nextState]
    /\ UNCHANGED <<state, timer, intervals, lastFixTime, comboTimeout, timeouts,
                   notices, now, gamesPlayed, simple>>

(***************************************************************************)
(* Inputs explored: runs of the generator's random draws, and payloads.    *)
(***************************************************************************)
Pick(k, r) == [k |-> k, r |-> r]

\* level 1: five elements, each with the click defect
DrawsClicks ==
    [picks |-> [i \in 1..5 |-> <<Pick("clickBroken", 0)>>], swaps |-> <<0, 1, 3, 2>>]

\* level 1: four elements whose order target is the place they start at, and
\* one click element
DrawsCompact ==
    [picks |-> << <<Pick("orderIndex", 0)>>, <<Pick("orderIndex", 1)>>,
                  <<Pick("orderIndex", 2)>>, <<Pick("orderIndex", 3)>>,
                  <<Pick("clickBroken", 0)>> >>,
     swaps |-> <<1, 2, 3, 4>>]

\* level 1: order targets {0: el-0, 1: el-2, 2: el-1} with el-0, el-1, el-2 at
\* places 0, 1, 2 (so el-2 sits at 2 and el-1 at 1), and two click elements
DrawsOrder ==
    [picks |-> << <<Pick("orderIndex", 0)>>, <<Pick("orderIndex", 2)>>,
                  <<Pick("orderIndex", 1)>>, <<Pick("clickBroken", 0)>>,
                  <<Pick("clickBroken", 0)>> >>,
     swaps |-> <<1, 2, 3, 4>>]

\* level 1: two elements with the order target 0 (the later one wins the
\* position), one with the target 1, and two click elements
DrawsDuplicate ==
    [picks |-> << <<Pick("orderIndex", 0)>>, <<Pick("orderIndex", 0)>>,
                  <<Pick("orderIndex", 1)>>, <<Pick("clickBroken", 0)>>,
                  <<Pick("clickBroken", 0)>> >>,
     swaps |-> <<1, 2, 3, 4>>]

\* level 3: el-0 carries the order target 1 and the click defect, el-1 the
\* order target 0, the other six the click defect
DrawsMixed ==
    [picks |-> << <<Pick("orderIndex", 1), Pick("clickBroken", 0)>>,
                  <<Pick("orderIndex", 0)>> >>
                  \o [i \in 1..6 |-> <<Pick("clickBroken", 0)>>],
     swaps |-> <<1, 2, 3, 4, 5, 6, 7>>]

Games == << [level |-> 1, rnd |-> DrawsClicks] >>

SessionGames == << [level |-> 1, rnd |-> DrawsCompact] >>

OrderGames ==
    << [level |-> 1, rnd |-> DrawsOrder], [level |-> 1, rnd |-> DrawsDuplicate],
       [level |-> 3, rnd |-> DrawsMixed] >>

UnknownId == 99

Payloads == << <<>>, [clicked |-> TRUE] >>

OrderPayloads ==
    << [clicked |-> TRUE], [orderIndex |-> 0], [orderIndex |-> 1], [orderIndex |-> 2] >>

ElementIds == {state.elements[k].id : k \in 1..Len(state.elements)}

\* the elements a player working in display order acts on: the first unfixed
\* one and the first one, and an id no element has
Targets ==
    {state.elements[k].id : k \in {j \in 1..Len(state.elements) :
        j = FirstUnfixed(state.elements) \/ j = 1}} \cup {UnknownId}

\* the elements of the order puzzle, and the first unfixed one
OrderTargets ==
    {state.elements[k].id : k \in {j \in 1..Len(state.elements) :
        j = FirstUnfixed(state.elements) \/ HasOrderTarget(state.elements[j])}}

\* the first startLevel of a session, on one of games
FirstStart(games) ==
    /\ gamesPlayed = 0
    /\ \E g \in 1..Len(games) : StartLevel(games[g].level, games[g].rnd)

IsTick == \E i \in 1..Len(intervals) : Tick(i)
IsUseHint == \E id \in Targets \cup {NoId} : UseHint(id)
IsUsePowerUp == \E p \in PowerUpIds \cup {"unknown"} : UsePowerUp(p)
IsFixAttempt == \E id \in Targets : \E q \in 1..Len(Payloads) : FixAttempt(id, Payloads[q])
IsOrderFixAttempt ==
    \E id \in OrderTargets : \E q \in 1..Len(OrderPayloads) : FixAttempt(id, OrderPayloads[q])
IsPowerUpExpire == \E t \in timeouts : PowerUpExpire(t)

\* hints are explored up to MaxHints per level
HintsLeft == state.hintsUsed < MaxHints \/ ~state.running

(***************************************************************************)
(* Spec: a level of click elements played against the clock.               *)
(***************************************************************************)
Next ==
    \/ FirstStart(Games)
    \/ IsTick
    \/ Stop
    \/ HintsLeft /\ IsUseHint
    \/ state.level <= MaxLevel /\ IsFixAttempt
    \/ ComboExpire
    \/ Notify
    \/ Advance(MaxTime)

Spec == Init /\ [][Next]_vars

(***************************************************************************)
(* SpecSession: every handler and timer callback, on a level that two      *)
(* repairs complete: a burst of intents, after which the clock runs while  *)
(* a one-shot timer is pending.                                            *)
(***************************************************************************)
\* the player acts in a burst before the first second has passed
Acting == now = Epoch

\* a one-shot timer of the service is pending
TimerPending == comboTimeout /= NoTimer \/ timeouts /= {}

\* long enough for the longest power-up to expire
SessionHorizon == DoubleDuration + 1

NextSession ==
    \/ Acting /\ FirstStart(SessionGames)
    \/ IsTick
    \/ Acting /\ Stop
    \/ Acting /\ HintsLeft /\ IsUseHint
    \/ Acting /\ Cardinality(timeouts) < MaxPending /\ IsUsePowerUp
    \/ Acting /\ state.level <= MaxLevel /\ IsFixAttempt
    \/ ComboExpire
    \/ IsPowerUpExpire
    \/ Notify
    \/ (Acting \/ TimerPending) /\ Advance(SessionHorizon)

SpecSession == Init /\ [][NextSession]_vars

(***************************************************************************)
(* SpecOrder: the order puzzle, with payloads that move elements; no time  *)
(* passes.                                                                 *)
(***************************************************************************)
NextOrder ==
    \/ FirstStart(OrderGames)
    \/ /\ ~AllFixed(state.elements)
       /\ state.combo < MaxRepairs
       /\ IsOrderFixAttempt

SpecOrder == Init /\ [][NextOrder]_vars

(***************************************************************************)
(* SpecExpiry: a level left to run out of time.                            *)
(***************************************************************************)
\* long enough for a level started at once to run out of time
ExpiryHorizon == initialTimeBase + 1

NextExpiry ==
    \/ FirstStart(Games)
    \/ IsTick
    \/ HintsLeft /\ IsUseHint
    \/ Advance(ExpiryHorizon)

SpecExpiry == Init /\ [][NextExpiry]_vars

(***************************************************************************)
(* SpecVerify: the rotate and slider tests of fixAttempt, in both          *)
(* services.  A level-1 board whose first element carries one rotate or    *)
(* one slider defect is generated for every target the generator can draw, *)
(* and one fixAttempt with every rotation or slider value in range is made *)
(* on the element as generated.  One of the two services is in use.        *)
(***************************************************************************)
MaxRotation == 720    \* rotations explored: -MaxRotation..MaxRotation
MaxSlider == 100      \* slider values explored: 0..MaxSlider

\* level 1: element 0 with the one defect kind (draw r), four click elements
DrawsDial(kind, r) ==
    [picks |-> << <<Pick(kind, r)>> >> \o [i \in 1..4 |-> <<Pick("clickBroken", 0)>>],
     swaps |-> <<1, 2, 3, 4>>]

\* the draws of the boards explored: every rotate and every slider target
DialDraws ==
    {DrawsDial("rotateBroken", r) : r \in 0..(Len(angles) - 1)}
        \cup {DrawsDial("sliderBroken", r) : r \in 0..(SliderSpan - 1)}

\* neither service has started a level yet
NothingStarted == gamesPlayed = 0 /\ classic = classicInit

\* the element is as the generator made it
Untouched(e) ==
    /\ ~e.fixed
    /\ e.ui.sliderValue = 0
    /\ e.ui.rotation = IF e.bp.rotateBroken /= 0 THEN (e.bp.rotateBroken + 180) % 360
                       ELSE 0

\* the first element of a running level is untouched and shows this hint
DialReady(s, hint) ==
    /\ s.running
    /\ Untouched(s.elements[1])
    /\ s.elements[1].hint = hint

VerifyStart == NothingStarted /\ \E rnd \in DialDraws : StartLevel(1, rnd)

ClassicVerifyStart == NothingStarted /\ \E rnd \in DialDraws : ClassicStartLevel(1, rnd)

IsRotateAttempt ==
    /\ DialReady(state, "rotate")
    /\ \E r \in (-MaxRotation)..MaxRotation :
          FixAttempt(state.elements[1].id, [rotation |-> r])

IsSlideAttempt ==
    /\ DialReady(state, "slider")
    /\ \E v \in 0..MaxSlider : FixAttempt(state.elements[1].id, [sliderValue |-> v])

IsClassicRotateAttempt ==
    /\ DialReady(classic.state, "rotate")
    /\ \E r \in (-MaxRotation)..MaxRotation :
          ClassicFixAttempt(classic.state.elements[1].id, [rotation |-> r])

IsClassicSlideAttempt ==
    /\ DialReady(classic.state, "slider")
    /\ \E v \in 0..MaxSlider :
          ClassicFixAttempt(classic.state.elements[1].id, [sliderValue |-> v])

NextVerify ==
    \/ VerifyStart
    \/ ClassicVerifyStart
    \/ IsRotateAttempt
    \/ IsSlideAttempt
    \/ IsClassicRotateAttempt
    \/ IsClassicSlideAttempt

SpecVerify == Init /\ [][NextVerify]_vars

(***************************************************************************)
(* SpecRestart: levels of click elements started again from the start     *)
(* button, with the level the state shows, while the timers of the level   *)
(* before are pending.                                                     *)
(***************************************************************************)
MaxStarts == 2        \* startLevel calls explored in SpecRestart

\* long enough for a combo timeout armed at once to fire
RestartHorizon == ComboWindow

\* a level of click elements, left in the order they are made in
ClickDraws(level) ==
    [picks |-> [i \in 1..ElementCount(level) |-> <<Pick("clickBroken", 0)>>],
     swaps |-> [i \in 1..(ElementCount(level) - 1) |-> i]]

\* AppComponent.start(): startLevel(snap.level)
Start ==
    /\ gamesPlayed < MaxStarts
    /\ StartLevel(state.level, ClickDraws(state.level))

NextRestart ==
    \/ Start
    \/ IsTick
    \/ Stop
    \/ state.level <= MaxLevel /\ IsFixAttempt
    \/ ComboExpire
    \/ Notify
    \/ Advance(RestartHorizon)

SpecRestart == Init /\ [][NextRestart]_vars

(***************************************************************************)
(* SpecRearm: the timed power-ups bought more than once.  One fixAttempt   *)
(* without a payload, made at once, puts the order puzzle's points on the  *)
(* score; freeze and double are then bought at any second, as far as the   *)
(* score pays.  Hints and stop() come in the first second.                 *)
(***************************************************************************)
\* long enough for a double bought a second after another to expire
RearmHorizon == DoubleDuration + 2

IsProbe == \E id \in Targets : FixAttempt(id, <<>>)

IsUseTimed == \E p \in {"freeze", "double"} : UsePowerUp(p)

NextRearm ==
    \/ Acting /\ FirstStart(SessionGames)
    \/ IsTick
    \/ Acting /\ state.totalFixed = 0 /\ IsProbe
    \/ Acting /\ HintsLeft /\ IsUseHint
    \/ Acting /\ Stop
    \/ IsUseTimed
    \/ ComboExpire
    \/ IsPowerUpExpire
    \/ Notify
    \/ Advance(RearmHorizon)

SpecRearm == Init /\ [][NextRearm]_vars

(***************************************************************************)
(* SpecScore: repairs scored with and without the double power-up, on a    *)
(* level of click elements and on one that two repairs complete, and one   *)
(* fixAttempt more after the level is complete.                            *)
(***************************************************************************)
ScoreGames == Games \o SessionGames

NextScore ==
    \/ FirstStart(ScoreGames)
    \/ IsTick
    \/ state.level <= MaxLevel + 1 /\ IsFixAttempt
    \/ Cardinality(timeouts) < MaxPending /\ UsePowerUp("double")
    \/ ComboExpire
    \/ Notify
    \/ Advance(MaxTime)

SpecScore == Init /\ [][NextScore]_vars

(***************************************************************************)
(* SpecAutofix: repairs and the autofix power-up, on the level that two    *)
(* repairs complete, on a level of assorted defects whose first two        *)
(* elements are click elements, and on a level whose click element comes   *)
(* before four order elements in place.                                    *)
(***************************************************************************)
\* level 1: two click elements, then a rotate (90), a slider (50) and a
\* dropdown element
DrawsAssorted ==
    [picks |-> << <<Pick("clickBroken", 0)>>, <<Pick("clickBroken", 0)>>,
                  <<Pick("rotateBroken", 0)>>, <<Pick("sliderBroken", 20)>>,
                  <<Pick("dropdownBroken", 1)>> >>,
     swaps |-> <<1, 2, 3, 4>>]

\* a click element followed by four order elements in place
DrawsTrailing ==
    [picks |-> << <<Pick("clickBroken", 0)>>, <<Pick("orderIndex", 1)>>,
                  <<Pick("orderIndex", 2)>>, <<Pick("orderIndex", 3)>>,
                  <<Pick("orderIndex", 4)>> >>,
     swaps |-> <<1, 2, 3, 4>>]

AutofixGames ==
    SessionGames \o << [level |-> 1, rnd |-> DrawsAssorted],
                       [level |-> 1, rnd |-> DrawsTrailing] >>

NextAutofix ==
    \/ FirstStart(AutofixGames)
    \/ IsTick
    \/ state.level <= MaxLevel /\ IsFixAttempt
    \/ UsePowerUp("autofix")
    \/ ComboExpire
    \/ Notify
    \/ Advance(MaxTime)

SpecAutofix == Init /\ [][NextAutofix]_vars

(***************************************************************************)
(* SpecHint: hints on level 9, which starts with 30 seconds: hint after    *)
(* hint until no time is left, around the repair of the first element.  No *)
(* time passes.                                                            *)
(***************************************************************************)
LateLevel == 9

\* a click element, a rotate element (90), and click elements
DrawsLate ==
    [picks |-> << <<Pick("clickBroken", 0)>>, <<Pick("rotateBroken", 0)>> >>
                  \o [i \in 1..(ElementCount(LateLevel) - 2) |-> <<Pick("clickBroken", 0)>>],
     swaps |-> [i \in 1..(ElementCount(LateLevel) - 1) |-> i]]

HintGames == << [level |-> LateLevel, rnd |-> DrawsLate] >>

NextHint ==
    \/ FirstStart(HintGames)
    \/ state.timeLeft > 0 /\ IsUseHint
    \/ IsFixAttempt
    \/ Notify

SpecHint == Init /\ [][NextHint]_vars

(***************************************************************************)
(* SpecReplay: a level started over in the middle of play: after repairs,  *)
(* a hint, a power-up, a pause.  The first level played is level 1 or      *)
(* level 9.  No time passes.                                               *)
(***************************************************************************)
ReplayGames == SessionGames \o HintGames

\* the first game is on
FirstGame == gamesPlayed = 1

\* the level of the state is started over, once
Replay == FirstGame /\ StartLevel(state.level, ClickDraws(state.level))

NextReplay ==
    \/ FirstStart(ReplayGames)
    \/ Replay
    \/ FirstGame /\ Stop
    \/ FirstGame /\ state.level = 1 /\ IsFixAttempt
    \/ FirstGame /\ state.hintsUsed = 0 /\ IsUseHint
    \/ timeouts = {} /\ IsUseTimed
    \/ Notify

SpecReplay == Init /\ [][NextReplay]_vars

(***************************************************************************)
(* SpecPrune: level 3, where an element may have two defects: a rotate     *)
(* and slider element, a click and checkbox element, and click elements.   *)
(* The payloads set one or both of the two dimensions, right or wrong, on  *)
(* the first two elements.  No time passes.                                *)
(***************************************************************************)
PruneLevel == 3

\* rotate (90) and slider (50); click and checkbox; click elements
DrawsTwofold ==
    [picks |-> << <<Pick("rotateBroken", 0), Pick("sliderBroken", 20)>>,
                  <<Pick("clickBroken", 0), Pick("checkboxBroken", 0)>> >>
                  \o [i \in 1..(ElementCount(PruneLevel) - 2) |-> <<Pick("clickBroken", 0)>>],
     swaps |-> [i \in 1..(ElementCount(PruneLevel) - 1) |-> i]]

PruneGames == << [level |-> PruneLevel, rnd |-> DrawsTwofold] >>

\* the payloads for the element at each place; place 0 stands for an id
\* that no element has
PrunePayloads ==
    << << <<>>, [rotation |-> 90], [rotation |-> 200], [sliderValue |-> 50],
          [sliderValue |-> 10], [rotation |-> 90, sliderValue |-> 50] >>,
       << <<>>, [clicked |-> TRUE], [checked |-> TRUE],
          [clicked |-> TRUE, checked |-> TRUE] >>,
       << [clicked |-> TRUE] >> >>

PruneAttempts ==
    UNION {{[id |-> IF k = Len(PrunePayloads) THEN UnknownId ELSE state.elements[k].id,
             payload |-> PrunePayloads[k][q]] : q \in 1..Len(PrunePayloads[k])} :
           k \in 1..Len(PrunePayloads)}

IsPruneAttempt == \E a \in PruneAttempts : FixAttempt(a.id, a.payload)

NextPrune ==
    \/ FirstStart(PruneGames)
    \/ state.running /\ state.level = PruneLevel /\ IsPruneAttempt
    \/ Notify

SpecPrune == Init /\ [][NextPrune]_vars

(***************************************************************************)
(* SpecUnit: the opacity and scale tests of fixAttempt: level 1 with an    *)
(* opacity or a scale element first, and one repair attempt on it with     *)
(* each value from 0 to MaxUnit hundredths.                                *)
(***************************************************************************)
MaxUnit == 100        \* opacity and scale values explored: 0..MaxUnit hundredths

UnitKinds == {"opacityBroken", "scaleBroken"}

UnitStart == gamesPlayed = 0 /\ \E kind \in UnitKinds : StartLevel(1, DrawsDial(kind, 0))

\* the level is as it was generated
UnitReady(kind) == state.running /\ state.elements = generateLevel(1, DrawsDial(kind, 0))

IsOpacityAttempt ==
    /\ UnitReady("opacityBroken")
    /\ \E v \in 0..MaxUnit : FixAttempt(state.elements[1].id, [opacity |-> v])

IsScaleAttempt ==
    /\ UnitReady("scaleBroken")
    /\ \E v \in 0..MaxUnit : FixAttempt(state.elements[1].id, [scale |-> v])

NextUnit ==
    \/ UnitStart
    \/ IsOpacityAttempt
    \/ IsScaleAttempt

SpecUnit == Init /\ [][NextUnit]_vars

(***************************************************************************)
(* SpecDrop: AppComponent's click and drop handlers on level 1 with one    *)
(* order element in place between click elements.  drop(src, tgt) makes    *)
(* two calls of fixAttempt; the state the first call publishes is the      *)
(* state after DropFirst.  No time passes.                                 *)
(***************************************************************************)
\* a click element, an order element in place (1), three click elements
DrawsStraddle ==
    [picks |-> << <<Pick("clickBroken", 0)>>, <<Pick("orderIndex", 1)>>,
                  <<Pick("clickBroken", 0)>>, <<Pick("clickBroken", 0)>>,
                  <<Pick("clickBroken", 0)>> >>,
     swaps |-> <<1, 2, 3, 4>>]

DropGames == << [level |-> 1, rnd |-> DrawsStraddle] >>

\* no drop is half done: no two elements show the same orderIndex
Settled(els) ==
    \A j, k \in 1..Len(els) : j /= k => els[j].ui.orderIndex /= els[k].ui.orderIndex

\* AppComponent.clickElement on an unfixed element that has a click defect
Click(k) ==
    /\ k \in 1..Len(state.elements)
    /\ ~state.elements[k].fixed
    /\ state.elements[k].bp.clickBroken
    /\ FixAttempt(state.elements[k].id, [clicked |-> TRUE])

\* AppComponent.drop(src, tgt), up to its first call of fixAttempt: neither
\* element is fixed
DropFirst(src, tgt) ==
    /\ src \in 1..Len(state.elements)
    /\ tgt \in 1..Len(state.elements)
    /\ ~state.elements[src].fixed
    /\ ~state.elements[tgt].fixed
    /\ FixAttempt(state.elements[src].id,
                  [orderIndex |-> state.elements[tgt].ui.orderIndex])

NextDrop ==
    \/ FirstStart(DropGames)
    \/ /\ state.running
       /\ Settled(state.elements)
       /\ \E k \in 1..Len(state.elements) : Click(k)
    \/ /\ state.running
       /\ Settled(state.elements)
       /\ \E src, tgt \in 1..Len(state.elements) : src /= tgt /\ DropFirst(src, tgt)
    \/ Notify

SpecDrop == Init /\ [][NextDrop]_vars

(***************************************************************************)
(* SpecGenerate: generateLevel for the levels 1..MaxGenLevel.  The draws   *)
(* give every element of a level the same defect (every kind with every    *)
(* value it can take) or, where the level allows two, the same pair of     *)
(* defects, with three shuffles; then one fixAttempt with an empty payload *)
(* on an element of the fresh level.                                       *)
(***************************************************************************)
MaxGenLevel == 4      \* levels generated: 1..MaxGenLevel

\* every draw of one defect, and every pair of kinds with the first value
GenPicks(count) ==
    {p \in {Pick(allOpts[o], r) : o \in 1..Len(allOpts), r \in 0..(SliderSpan - 1)} :
        DrawInRange(p, count)}

GenPickLists(level) ==
    {<<p>> : p \in GenPicks(ElementCount(level))}
        \cup (IF MaxPickCount(level) < 2 THEN {}
              ELSE {<<Pick(allOpts[a], 0), Pick(allOpts[b], 0)>> :
                      <<a, b>> \in {<<a, b>> \in (1..Len(allOpts)) \X (1..Len(allOpts)) :
                                      a /= b}})

\* the draws of the shuffle: each element stays, each goes to the front, each
\* trades places with its neighbour
GenShuffles(count) ==
    {[i \in 1..(count - 1) |-> i], [i \in 1..(count - 1) |-> 0],
     [i \in 1..(count - 1) |-> i - 1]}

GenDraws(level) ==
    {[picks |-> [k \in 1..ElementCount(level) |-> pl], swaps |-> sw] :
        pl \in GenPickLists(level), sw \in GenShuffles(ElementCount(level))}

GenStart ==
    /\ gamesPlayed = 0
    /\ \E level \in 1..MaxGenLevel : \E rnd \in GenDraws(level) : StartLevel(level, rnd)

\* the level is as generateLevel returned it
Fresh == state.running /\ state.totalFixed = 0 /\ \A k \in 1..Len(state.elements) :
                                                     ~state.elements[k].fixed

IsIdleAttempt ==
    /\ Fresh
    /\ \E k \in 1..Len(state.elements) : FixAttempt(state.elements[k].id, <<>>)

NextGenerate ==
    \/ GenStart
    \/ IsIdleAttempt
    \/ Notify

SpecGenerate == Init /\ [][NextGenerate]_vars

(***************************************************************************)
(* SpecClassicOrder: the order puzzle of the classic-mode service on       *)
(* level 1: boards with order targets in place and out of place, with      *)
(* clicks, empty payloads and orderIndex payloads on the first three       *)
(* elements.                                                               *)
(***************************************************************************)
ClassicOrderDraws == {DrawsTrailing, DrawsStraddle, DrawsCompact, DrawsOrder}

ClassicOrderStart ==
    NothingStarted /\ \E rnd \in ClassicOrderDraws : ClassicStartLevel(1, rnd)

ClassicOrderPayloads == OrderPayloads \o << <<>> >>

IsClassicOrderAttempt ==
    \E k \in 1..Min(3, Len(classic.state.elements)) :
    \E q \in 1..Len(ClassicOrderPayloads) :
        ClassicFixAttempt(classic.state.elements[k].id, ClassicOrderPayloads[q])

NextClassicOrder ==
    \/ ClassicOrderStart
    \/ classic.state.running /\ IsClassicOrderAttempt

SpecClassicOrder == Init /\ [][NextClassicOrder]_vars

(***************************************************************************)
(* Simple mode, the service alone: startLevel, hitDefect, handleWheelOn-   *)
(* Defect, connectWires and nextLevel called in any order.  The boards     *)
(* drawn put the wires first and a screw last; hits go to the first or the *)
(* last defect not yet fixed, to a fixed one or to an unknown id.          *)
(***************************************************************************)
\* Math.random() draws, in hundredths, of one board per level
SimpleDraws(level) ==
    CASE level = 3 -> {<<0, 30, 30, 30, 30, 30, 30, 30, 30, 60>>}
      [] level = 4 -> {<<70, 70, 0, 30, 30, 30, 30, 30, 30, 50>>}
      [] level = 5 -> {<<50, 50, 70, 0, 20, 20, 20, 20, 20, 35>>}
      [] OTHER -> {<<0, 0, 0, 0, 0, 0, 0, 0, 0, 0>>}

UnfixedIds(s) == {s.defects[k].id : k \in {j \in 1..Len(s.defects) : ~s.defects[j].fixed}}
FixedIds(s) == {s.defects[k].id : k \in {j \in 1..Len(s.defects) : s.defects[j].fixed}}

Lowest(S) == CHOOSE x \in S : \A y \in S : x <= y
Highest(S) == CHOOSE x \in S : \A y \in S : x >= y

HitTargets(s) ==
    {UnknownId}
      \cup (IF UnfixedIds(s) = {} THEN {} ELSE {Lowest(UnfixedIds(s)), DefectCount - 1})
      \cup (IF FixedIds(s) = {} THEN {} ELSE {Lowest(FixedIds(s))})

WheelTargets == {0, DefectCount - 1, UnknownId}
WheelDeltas == {-100, 100}
ConnectTargets == {0, 1, UnknownId}

NextSimple ==
    \/ \E level \in 1..LastLevel : \E rnd \in SimpleDraws(level) :
            SimpleStartLevel(level, rnd)
    \/ \E id \in HitTargets(simple.state) : HitDefect(id)
    \/ \E id \in WheelTargets : \E deltaY \in WheelDeltas :
            HandleWheelOnDefect(id, deltaY)
    \/ \E a \in ConnectTargets : \E b \in ConnectTargets : ConnectWires(a, b)
    \/ \E rnd \in SimpleDraws(Min(LastLevel, simple.state.level + 1)) : NextLevel(rnd)

SpecSimple == Init /\ [][NextSimple]_vars

(***************************************************************************)
(* Simple mode, the component: one SimpleModeComponent from ngOnInit on,   *)
(* with the player working through each board from its first defect to    *)
(* its last.                                                               *)
(***************************************************************************)
HoverTargets(s) == IF UnfixedIds(s) = {} THEN {} ELSE {Lowest(UnfixedIds(s))}

\* no gesture callback is pending: the player waits for one before the next
\* gesture, except for turning the wheel
Quiet == GesturesPending = 0

NextAdvance ==
    \/ NgOnInit
    \/ Elapse
    \/ \E rnd \in SimpleDraws(1) : FireInit(rnd)
    \/ FireHit
    \/ FireTracked
    \/ \E rnd \in SimpleDraws(Min(LastLevel, simple.state.level + 1)) : FireAdvance(rnd)
    \/ Quiet /\ \E id \in HoverTargets(simple.state) : Hover(id)
    \/ Quiet /\ HoverNone
    \/ Quiet /\ TrackerDone
    \/ Quiet /\ \E ready \in BOOLEAN : CheckDefectClick(ready)
    \/ \E deltaY \in WheelDeltas : OnMouseWheel(deltaY)
    \/ Quiet /\ \E sourceId \in ConnectTargets : \E targetId \in ConnectTargets :
            OnWireDrop(sourceId, targetId)

SpecAdvance == Init /\ [][NextAdvance]_vars

(***************************************************************************)
(* Properties of the full-mode GameService.                                *)
(***************************************************************************)
Unlocked(a) == state.achievements[a].unlocked

\* the element with this id is fixed
FixedId(id) == \E k \in 1..Len(state.elements) :
                  state.elements[k].id = id /\ state.elements[k].fixed

\* a level was started and all its elements are fixed
Completed == gamesPlayed > 0 /\ AllFixed(state.elements)

\* C1: the tick that finds timeLeft <= 1 on a running level 1 with no freeze
\* active and no hint used (the 90th tick after startLevel(1)) leaves
\* running = FALSE, the score as it was before the tick, and level 1.
C1_TimeExpiredStopsLevel ==
    [][(/\ state.running /\ ~state.powerUps["freeze"]
        /\ state.level = 1 /\ state.hintsUsed = 0 /\ state.timeLeft <= 1
        /\ IsTick)
       => (/\ ~state'.running
           /\ state'.score = state.score
           /\ state'.level = 1)]_vars

\* C2: the fixAttempt that leaves every element fixed ends with
\* running = FALSE, and from then on no fixAttempt, useHint or tick changes
\* score, level or timeLeft (no startLevel follows in this specification).
C2_CompletedLevelIsIdle ==
    [][/\ (state.running /\ AllFixed(state'.elements) /\ IsFixAttempt)
            => ~state'.running
       /\ Completed
            => (/\ state'.score = state.score
                /\ state'.level = state.level
                /\ state'.timeLeft = state.timeLeft)]_vars

\* C3: a fixAttempt on a running level that leaves every element fixed ends
\* with score = (score + the points of that repair) + timeLeft * 8
\* + maxCombo * 50, maxCombo being the one after the repair, and level + 1.
C3_LevelCompleteScore ==
    [][(state.running /\ AllFixed(state'.elements) /\ IsFixAttempt)
       => LET diff == FixedCount(state'.elements) - FixedCount(state.elements)
              combo == IF diff <= 0 THEN state.combo
                       ELSE IF now - lastFixTime < 3 /\ state.combo > 0
                            THEN state.combo + 1 ELSE 1
              points == IF diff <= 0 THEN 0
                        ELSE diff * 100 * state.level
                             + (IF combo > 1 THEN (100 * state.level * combo) \div 4 ELSE 0)
                             + state.timeLeft * 2
              best == IF combo > state.maxCombo THEN combo ELSE state.maxCombo
          IN  /\ state'.score = (state.score + points) + state.timeLeft * 8 + best * 50
              /\ state'.level = state.level + 1]_vars

\* the five click elements of level 1 fixed one by one in one chain: level 2
C3_Witness ==
    /\ state.level = 2
    /\ Len(state.elements) = 5 /\ AllFixed(state.elements)
    /\ state.totalFixed = 5 /\ state.maxCombo = 5
    /\ state.score > 0

\* C4: a fixAttempt on an element that is already fixed changes nothing,
\* whatever the payload: elements, score, combo, totalFixed, level, running.
C4_FixedElementIsImmutable ==
    [][\A id \in OrderTargets : \A q \in 1..Len(OrderPayloads) :
          (FixedId(id) /\ FixAttempt(id, OrderPayloads[q]))
          => (/\ state'.elements = state.elements
              /\ state'.score = state.score
              /\ state'.combo = state.combo
              /\ state'.totalFixed = state.totalFixed
              /\ state'.level = state.level
              /\ state'.running = state.running)]_vars

\* brokenProps has no truthy dimension other than the order target
NoOtherDefect(bp) == EveryValueFalsy([bp EXCEPT !.orderIndex = NoIndex])

\* the element required at a position is the last one in the array with that
\* target; every required element sits at its position of the sorted sequence
RequiredHold(els) ==
    \A k \in 1..Len(els) :
        (/\ HasOrderTarget(els[k])
         /\ \A j \in (k + 1)..Len(els) : els[j].bp.orderIndex /= els[k].bp.orderIndex)
        => SortedPlace(els, k) = els[k].bp.orderIndex

\* C5: in every state, an element is fixed iff its brokenProps has no truthy
\* dimension other than the order target and, if it has an order target,
\* every required position holds the required element.
C5_FixedIffRepaired ==
    \A k \in 1..Len(state.elements) :
        LET e == state.elements[k]
        IN  e.fixed <=> (/\ NoOtherDefect(e.bp)
                         /\ HasOrderTarget(e) => RequiredHold(state.elements))

\* every required position holds and every order-constrained element is
\* fixed, or some required position does not hold and none of them is fixed
AllOrNothing(els) ==
    LET constrained == {k \in 1..Len(els) : HasOrderTarget(els[k])}
    IN  \/ RequiredHold(els) /\ \A k \in constrained : els[k].fixed
        \/ ~RequiredHold(els) /\ \A k \in constrained : ~els[k].fixed

\* C6: the pass of a fixAttempt on a running level is all-or-nothing: no
\* fixAttempt ends with some order-constrained elements fixed and others
\* not, or with their fixed flags disagreeing with the required positions.
C6_OrderAllOrNothing ==
    [][(state.running /\ ~AllOrNothing(state'.elements)) => ~IsOrderFixAttempt]_vars

\* targets {0: el-0, 1: el-2, 2: el-1}: el-1 and el-2 have swapped their
\* places and the three are fixed, the click elements are not
C6_Witness ==
    /\ Len(state.elements) = 5
    /\ state.elements[1].bp.orderIndex = 0
    /\ state.elements[2].bp.orderIndex = 2 /\ state.elements[2].ui.orderIndex = 2
    /\ state.elements[3].bp.orderIndex = 1 /\ state.elements[3].ui.orderIndex = 1
    /\ \A k \in 1..3 : state.elements[k].fixed
    /\ \A k \in 4..5 : ~state.elements[k].fixed
    /\ state.totalFixed = 3

\* C7: totalFixed never decreases, whatever step is taken.
C7_TotalFixedNonDecreasing ==
    [][state'.totalFixed >= state.totalFixed]_vars

\* C8: maxCombo never decreases, and combo <= maxCombo in every state.
C8_MaxComboRunningMaximum ==
    [][/\ state.combo <= state.maxCombo
       /\ state'.combo <= state'.maxCombo
       /\ state'.maxCombo >= state.maxCombo]_vars

\* a chain of repairs was made and the combo has since been reset
C8_Witness ==
    /\ state.maxCombo >= 3
    /\ state.combo = 0
    /\ state.totalFixed >= 3

\* C9: an achievement that is unlocked is unlocked after every step.
C9_UnlockedStaysUnlocked ==
    [][\A a \in AchievementIds : Unlocked(a) => state'.achievements[a].unlocked]_vars

\* perfectionist stays unlocked after a hint was used, score_1000 after the
\* score was spent
C9_Witness ==
    /\ Unlocked("perfectionist") /\ state.hintsUsed > 0
    /\ Unlocked("score_1000") /\ state.score < 1000

\* C10: a repair less than 3000 ms after the previous one while combo > 0
\* sets combo to combo + 1, any other repair sets it to 1, and 3000 ms after
\* the last repair, once the timers due have run, combo is 0.
C10_ComboChainRule ==
    [][/\ (/\ state.running
           /\ FixedCount(state'.elements) > FixedCount(state.elements)
           /\ IsFixAttempt)
          => state'.combo = IF now - lastFixTime < 3 /\ state.combo > 0
                            THEN state.combo + 1 ELSE 1
       /\ (/\ lastFixTime /= 0
           /\ now >= lastFixTime + 3
           /\ comboTimeout = NoTimer \/ comboTimeout > now)
          => state.combo = 0]_vars

(***************************************************************************)
(* Properties of the repair verifier, in both services.                    *)
(***************************************************************************)
\* the shorter way round the circle between two angles, in degrees
CircularDistance(a, b) ==
    LET d == (((a - b) % 360) + 360) % 360
    IN  IF d <= 360 - d THEN d ELSE 360 - d

\* across a step of a running level, every element with a rotate target has
\* the target cleared exactly when its rotation is within 15 degrees of it
RotateRule(before, after) ==
    \A k \in 1..Len(before) :
        before[k].bp.rotateBroken \in {90, 180, 270} =>
            (after[k].bp.rotateBroken = 0
                <=> CircularDistance(after[k].ui.rotation,
                                     before[k].bp.rotateBroken) <= 15)

\* C11: for every target in {90, 180, 270} and every integer rotation in
\* -720..720, fixAttempt clears the rotate dimension if and only if the
\* circular distance between the rotation and the target is at most 15
\* degrees, in the full-mode and in the classic-mode service.
C11_RotateWithinTolerance ==
    [][/\ state.running => RotateRule(state.elements, state'.elements)
       /\ classic.state.running
            => RotateRule(classic.state.elements, classic'.state.elements)]_vars

\* the rotate target 90 (the only one within 15 degrees) is cleared at 105
C11_Witness ==
    /\ state.elements /= <<>>
    /\ state.elements[1].hint = "rotate"
    /\ state.elements[1].ui.rotation = 105
    /\ state.elements[1].bp.rotateBroken = 0

\* across a step of a running level, every element with a slider target has
\* the target cleared exactly when its value is within 2 of it
SlideRule(before, after) ==
    \A k \in 1..Len(before) :
        before[k].bp.sliderBroken /= NoValue =>
            (after[k].bp.sliderBroken = NoValue
                <=> Abs(after[k].ui.sliderValue - before[k].bp.sliderBroken) <= 2)

\* C12: for every slider target t and slider value v, fixAttempt clears the
\* slider dimension if and only if |v - t| <= 2, in the full-mode and in the
\* classic-mode service.
C12_SliderWithinTolerance ==
    [][/\ state.running => SlideRule(state.elements, state'.elements)
       /\ classic.state.running
            => SlideRule(classic.state.elements, classic'.state.elements)]_vars

\* the full-mode half of C12, which the code satisfies
C12_FullModeSlider ==
    [][state.running => SlideRule(state.elements, state'.elements)]_vars

\* C13: usePowerUp(p) on a running level with score below the cost of p
\* changes nothing: score, active flags, elements, message and the pending
\* expiry timers are as before.
C13_UnaffordablePowerUpIsNoOp ==
    [][\A p \in PowerUpIds :
          (state.running /\ state.score < Cost(p) /\ UsePowerUp(p))
              => (state' = state /\ timeouts' = timeouts)]_vars

\* a running level with a positive score that does not pay for freeze
C13_Witness ==
    /\ state.running
    /\ state.score > 0
    /\ state.score < Cost("freeze")

\* C14: while running is FALSE, fixAttempt, useHint and usePowerUp change
\* nothing, whatever their argument: the id of an element, an id no element
\* has or none, any payload, any power-up id.
C14_IdleIntentsAreNoOps ==
    [][~state.running =>
          /\ \A id \in ElementIds \cup {UnknownId, NoId} :
                /\ UseHint(id) => UNCHANGED vars
                /\ \A q \in 1..Len(Payloads) :
                      FixAttempt(id, Payloads[q]) => UNCHANGED vars
          /\ \A p \in PowerUpIds \cup {"unknown"} :
                UsePowerUp(p) => UNCHANGED vars]_vars

\* a level stopped with elements left to repair and a score that pays for
\* a power-up
C14_Witness ==
    /\ ~state.running
    /\ state.message = <<"paused", "">>
    /\ ~AllFixed(state.elements)
    /\ state.score >= Cost("double")

(***************************************************************************)
(* Properties of the timers of the full-mode GameService.                  *)
(***************************************************************************)
\* stop() was the last intent to publish: the level is paused
Paused == ~state.running /\ state.message = <<"paused", "">>

\* C15: after stop(), until the next startLevel, no step changes the
\* published state: no tick, combo expiry, power-up expiry or achievement
\* notice scheduled before the stop() acts on it.
C15_StopCancelsEveryTimer ==
    [][(Paused /\ gamesPlayed' = gamesPlayed) => state' = state]_vars

\* C16: a combo timeout armed by a repair before a startLevel is not
\* pending after it, so the combo-expiry callback only ever fires in the
\* level whose repair armed it.
C16_StartLevelCancelsComboTimer ==
    [][gamesPlayed' /= gamesPlayed => comboTimeout' = NoTimer]_vars

\* the same seen from the callback: when the combo expiry fires on a running
\* level, an element of that level has been repaired
C16_ComboExpiryFollowsRepair ==
    [][(state.running /\ ComboExpire) => FixedCount(state.elements) > 0]_vars

\* the live tick handle is never overdue, so it fires once per second
TickOnTime == \A i \in 1..Len(intervals) : intervals[i] >= now

\* C17: at most one tick interval is live, whatever the sequence of
\* startLevel, stop and level finishes, and no step takes more than one
\* second off timeLeft of a level: each elapsed second is counted once.
C17_OneLiveTick ==
    /\ [](Len(intervals) <= 1 /\ TickOnTime)
    /\ [][(gamesPlayed' = gamesPlayed /\ IsTick) => state'.timeLeft >= state.timeLeft - 1]_vars

\* a second level was started and its tick has counted a second
C17_Witness ==
    /\ gamesPlayed = MaxStarts
    /\ state.running
    /\ Len(intervals) = 1
    /\ state.timeLeft < LevelTime(state.level)

\* C18: an expiry callback of a power-up does not deactivate it while a
\* later activation of the same power-up has its own expiry pending: the
\* power-up stays active until the expiry of the latest activation.
C18_LatestActivationRules ==
    [][\A t \in timeouts :
          (state.powerUps[t.id] /\ PowerUpExpire(t))
              => \A u \in timeouts : u.id = t.id => u.due <= t.due]_vars

\* while freeze is active its expiry is pending, not overdue, and due within
\* the 10 seconds to come
FreezeEndsOnTime ==
    state.powerUps["freeze"] =>
        \E t \in timeouts : t.id = "freeze" /\ t.due >= now /\ t.due <= now + 10

\* C19: a tick that fires on a running level while freeze is active changes
\* nothing (timeLeft is not decremented, the level is not ended), and freeze
\* is inactive again no later than 10 seconds after it was activated.
C19_FreezeSuspendsTicks ==
    /\ [][\A i \in 1..Len(intervals) :
             (state.running /\ state.powerUps["freeze"] /\ Tick(i))
                 => state' = state]_vars
    /\ []FreezeEndsOnTime

\* freeze has been active for nine seconds on a running level, whose ticks
\* went on firing
C19_Witness ==
    /\ state.running
    /\ state.powerUps["freeze"]
    /\ [id |-> "freeze", due |-> now + 1] \in timeouts
    /\ \A i \in 1..Len(intervals) : intervals[i] > now

(***************************************************************************)
(* Properties of the scoring of the full-mode GameService.                 *)
(***************************************************************************)
\* the points of a repair that raises the fixed count by diff, as the spec
\* words them
RepairPoints(diff, level, combo, timeLeft, doubled) ==
    (diff * 100 * level
        + (IF combo > 1 THEN (100 * level * combo * 25) \div 100 ELSE 0)
        + timeLeft * 2) * (IF doubled THEN 2 ELSE 1)

\* the bonus a fixAttempt that leaves every element fixed adds on top
CompletionBonus(timeLeft, maxCombo) == timeLeft * 8 + maxCombo * 50

\* the score after a fixAttempt that raised the fixed count
RisingCountScore ==
    LET diff == FixedCount(state'.elements) - FixedCount(state.elements)
        pts == RepairPoints(diff, state.level, state'.combo, state.timeLeft,
                            state.powerUps["double"])
    IN  state'.score = state.score + pts
                       + (IF AllFixed(state'.elements)
                          THEN CompletionBonus(state.timeLeft, state'.maxCombo) ELSE 0)

\* C20: a fixAttempt on a running level that raises the fixed count by
\* diff >= 1 adds (diff*100*level + comboBonus + timeLeft*2) * m to the score
\* (plus the completion bonus when it leaves every element fixed), with
\* comboBonus = floor(100*level*combo*0.25) for a new combo > 1 and m = 2
\* while double is active; a fixAttempt that does not raise the fixed count
\* leaves the score as it is.
C20_PerRepairPoints ==
    [][(state.running /\ IsFixAttempt)
       => IF FixedCount(state'.elements) > FixedCount(state.elements)
          THEN RisingCountScore
          ELSE state'.score = state.score]_vars

\* the half of C20 the code satisfies: the points of a repair that raises
\* the fixed count
C20_RisingCountPoints ==
    [][(/\ state.running
        /\ FixedCount(state'.elements) > FixedCount(state.elements)
        /\ IsFixAttempt)
       => RisingCountScore]_vars

(***************************************************************************)
(* Properties of the autofix power-up.                                     *)
(***************************************************************************)
\* C21: every step of a running level that raises the count of fixed
\* elements, by a fixAttempt or by the autofix power-up, raises totalFixed by
\* the number of elements newly fixed.
C21_TotalFixedCountsEveryFix ==
    [][(/\ state.running
        /\ gamesPlayed' = gamesPlayed
        /\ FixedCount(state'.elements) > FixedCount(state.elements))
       => state'.totalFixed = state.totalFixed
                              + FixedCount(state'.elements) - FixedCount(state.elements)]_vars

\* C22: no state has a live tick, running = TRUE and every element of a
\* non-empty level fixed: the step that fixes the last element completes
\* the level.
C22_AllFixedCompletesLevel ==
    ~(/\ state.running
      /\ timer /= 0
      /\ state.elements /= <<>>
      /\ AllFixed(state.elements))

\* the elements before the first unfixed one are fixed
IsFirstUnfixed(els, k) == ~els[k].fixed /\ \A j \in 1..(k - 1) : els[j].fixed

\* C23: usePowerUp("autofix") on a running level with score >= 500 takes 500
\* off the score, leaves autofix inactive, and marks the first unfixed
\* element fixed with empty brokenProps while every other element stays as
\* it is; with no unfixed element the elements stay as they are.
C23_AutofixFixesFirstUnfixed ==
    [][(state.running /\ state.score >= 500 /\ UsePowerUp("autofix"))
       => /\ state'.score = state.score - 500
          /\ ~state'.powerUps["autofix"]
          /\ Len(state'.elements) = Len(state.elements)
          /\ \A k \in 1..Len(state.elements) :
                IF IsFirstUnfixed(state.elements, k)
                THEN /\ state'.elements[k].fixed
                     /\ state'.elements[k].bp = emptyBrokenProps
                     /\ state'.elements[k].id = state.elements[k].id
                ELSE state'.elements[k] = state.elements[k]]_vars

\* the rotate element of the assorted level was fixed by autofix: nothing
\* but the 500 points spent separates the score from that of two clicks
C23_Witness ==
    /\ state.running
    /\ Len(state.elements) = 5
    /\ state.elements[3].hint = "rotate"
    /\ state.elements[3].fixed
    /\ state.elements[3].ui.rotation = 90
    /\ ~state.elements[4].fixed
    /\ state.totalFixed = 2

(***************************************************************************)
(* Frame and effect of useHint, startLevel and stop.                       *)
(***************************************************************************)
\* the message a hint on id leaves: the hint of the element with that id, or
\* of the first unfixed element when no id is given; as before when there is
\* no such element
HintMessage(id) ==
    IF \E k \in 1..Len(state.elements) :
          IF id = NoId THEN IsFirstUnfixed(state.elements, k)
          ELSE state.elements[k].id = id
    THEN \E k \in 1..Len(state.elements) :
            /\ IF id = NoId THEN IsFirstUnfixed(state.elements, k)
               ELSE state.elements[k].id = id
            /\ state'.message[2] = state.elements[k].hint
            /\ state'.message[1] \in {"hint", "hintFirst"}
    ELSE state'.message = state.message

\* C24: useHint on a running level sets timeLeft to max(0, timeLeft - 8),
\* adds 1 to hintsUsed, sets combo to 0 and the message to the hint of the
\* element named (of the first unfixed one when none is named); score,
\* level, elements, maxCombo and totalFixed stay as they are.
C24_UseHintEffect ==
    [][\A id \in ElementIds \cup {UnknownId, NoId} :
          (state.running /\ UseHint(id))
              => /\ state'.timeLeft = (IF state.timeLeft >= 8 THEN state.timeLeft - 8 ELSE 0)
                 /\ state'.hintsUsed = state.hintsUsed + 1
                 /\ state'.combo = 0
                 /\ HintMessage(id)
                 /\ state'.score = state.score
                 /\ state'.level = state.level
                 /\ state'.elements = state.elements
                 /\ state'.maxCombo = state.maxCombo
                 /\ state'.totalFixed = state.totalFixed]_vars

\* the fourth hint found 6 seconds left and took them all, after a repair:
\* the rotate element is the first unfixed one
C24_Witness ==
    /\ state.running
    /\ state.timeLeft = 0
    /\ state.hintsUsed = 4
    /\ state.totalFixed = 1
    /\ state.combo = 0
    /\ state.message = <<"hintFirst", "rotate">>

\* what startLevel(level) publishes, and what it keeps
StartedWith(level) ==
    /\ state'.running
    /\ state'.level = level
    /\ state'.timeLeft = (IF 90 - (level - 1) * 8 >= 30 THEN 90 - (level - 1) * 8 ELSE 30)
    /\ Len(state'.elements) = ElementCount(level)
    /\ \A k \in 1..Len(state'.elements) : ~state'.elements[k].fixed
    /\ state'.hintsUsed = 0
    /\ state'.combo = 0
    /\ \A q \in PowerUpIds : ~state'.powerUps[q]
    /\ state'.score = state.score
    /\ state'.maxCombo = state.maxCombo
    /\ state'.totalFixed = state.totalFixed
    /\ state'.achievements = state.achievements

\* C25: startLevel(level) publishes running = true, the level given,
\* timeLeft = max(30, 90 - (level - 1) * 8), fresh elements none of which is
\* fixed, hintsUsed = 0, combo = 0 and every power-up inactive; score,
\* maxCombo, totalFixed and the unlocked achievements keep their values.
C25_StartLevelEffect ==
    [][gamesPlayed' /= gamesPlayed
          => /\ \A g \in 1..Len(ReplayGames) :
                   StartLevel(ReplayGames[g].level, ReplayGames[g].rnd)
                       => StartedWith(ReplayGames[g].level)
             /\ Replay => StartedWith(state.level)]_vars

\* level 1 started over while a power-up was active (its expiry is still
\* pending), with points, repairs and achievements from before
C25_Witness ==
    /\ gamesPlayed = 2
    /\ state.running
    /\ state.level = 1
    /\ state.score > 0
    /\ state.totalFixed > 0
    /\ state.maxCombo > 0
    /\ \E a \in AchievementIds : state.achievements[a].unlocked
    /\ timeouts /= {}
    /\ \A q \in PowerUpIds : ~state.powerUps[q]
    /\ FixedCount(state.elements) = 0

\* level 9 starts with the 30 seconds of the floor
C25_WitnessFloor ==
    /\ gamesPlayed = 1
    /\ state.level = LateLevel
    /\ state.timeLeft = 30

\* C26: stop() sets running = false and combo = 0 and leaves level, score,
\* timeLeft, elements, maxCombo, totalFixed and the achievements as they
\* are; from then on no tick takes a second off timeLeft until startLevel is
\* called again.
C26_StopEffect ==
    [][/\ Stop => /\ ~state'.running
                  /\ state'.combo = 0
                  /\ state'.level = state.level
                  /\ state'.score = state.score
                  /\ state'.timeLeft = state.timeLeft
                  /\ state'.elements = state.elements
                  /\ state'.maxCombo = state.maxCombo
                  /\ state'.totalFixed = state.totalFixed
                  /\ state'.achievements = state.achievements
                  /\ intervals' = <<>>
       /\ (~state.running /\ gamesPlayed' = gamesPlayed)
             => /\ state'.timeLeft = state.timeLeft
                /\ ~state'.running]_vars

\* a second after stop(): the repairs had built a combo, the clock of the
\* level still shows the time it showed
C26_Witness ==
    /\ ~state.running
    /\ gamesPlayed = 1
    /\ now > Epoch
    /\ state.timeLeft = LevelTime(1)
    /\ state.maxCombo > 0
    /\ state.combo = 0
    /\ state.score > 0
    /\ intervals = <<>>

(***************************************************************************)
(* The deferred callbacks.                                                 *)
(***************************************************************************)
\* the fields of the state other than f are what they were
OnlyChanges(f) == \A g \in DOMAIN state \ {f} : state'[g] = state[g]

\* C27: a deferred callback acts on the state of the moment it fires: the
\* combo callback changes the combo alone, the callback that ends freeze or
\* double changes the active flag of that power-up alone; what was published
\* between scheduling and firing is kept.
C27_CallbacksKeepCurrentState ==
    [][/\ (comboTimeout /= NoTimer /\ comboTimeout' = NoTimer /\ ComboExpire)
             => /\ state'.combo = 0
                /\ OnlyChanges("combo")
       /\ (timeouts' /= timeouts)
             => \A t \in timeouts :
                   PowerUpExpire(t)
                       => /\ state'.powerUps = [state.powerUps EXCEPT ![t.id] = FALSE]
                          /\ OnlyChanges("powerUps")]_vars

\* the combo callback and the callback that ends double have both fired;
\* the fifteen seconds the ticks took in between are not given back
C27_Witness ==
    /\ state.running
    /\ now = Epoch + DoubleDuration
    /\ timeouts = {}
    /\ comboTimeout = NoTimer
    /\ ~state.powerUps["double"]
    /\ state.message = <<"activated", "double">>
    /\ state.timeLeft = LevelTime(1) - DoubleDuration
    /\ state.combo = 0
    /\ state.maxCombo > 0

(***************************************************************************)
(* The order check inside fixAttempt.                                      *)
(***************************************************************************)
\* there are order targets and the elements stand where the targets ask
OrderPasses(els) ==
    /\ \E k \in 1..Len(els) : HasOrderTarget(els[k])
    /\ allGood(els)

\* C28: every fixAttempt on a running level runs the order check over all
\* the elements: when the order is right, an attempt on an element without
\* order target, on an id no element has, or with a payload that satisfies
\* nothing, leaves every element with an order target fixed, and the call
\* scores the elements newly fixed: totalFixed rises by their number diff
\* (which may exceed 1) and the score by the points of diff repairs.
C28_OrderCheckOnEveryAttempt ==
    [][(/\ state.running
        /\ now' = now
        /\ timeouts' = timeouts
        /\ state'.timeLeft = state.timeLeft
        /\ Len(notices') >= Len(notices)
        /\ OrderPasses(state.elements)
        /\ IsFixAttempt)
          => /\ \A k \in 1..Len(state.elements) :
                   HasOrderTarget(state.elements[k]) => state'.elements[k].fixed
             /\ state'.totalFixed - state.totalFixed
                   = FixedCount(state'.elements) - FixedCount(state.elements)
             /\ FixedCount(state'.elements) > FixedCount(state.elements)
                   => RisingCountScore]_vars

\* the first attempt of the level, on the click element with a payload that
\* satisfies nothing or on an id that no element has: the four order
\* elements are fixed, the click element is not
C28_Witness ==
    /\ state.running
    /\ Len(state.elements) = 5
    /\ ~HasOrderTarget(state.elements[1])
    /\ ~state.elements[1].fixed
    /\ \A k \in 2..5 : HasOrderTarget(state.elements[k]) /\ state.elements[k].fixed
    /\ state.totalFixed = 4
    /\ state.combo = 1
    /\ state.score = RepairPoints(4, 1, 1, LevelTime(1), FALSE)

(***************************************************************************)
(* The repair verifier.                                                    *)
(***************************************************************************)
NonOrder == DOMAIN emptyBrokenProps \ {"orderIndex"}

\* the element has the defect d
Present(bp, d) == bp[d] /= emptyBrokenProps[d]

\* for each dimension, whether the ui meets what the defect asks
DimensionMet(bp, ui) ==
    [clickBroken |-> ui.clicked,
     rotateBroken |-> CircularDistance(ui.rotation, bp.rotateBroken) <= 15,
     textBroken |-> textMatches(ui.currentText, bp.textBroken),
     colorWrong |-> colorsMatch(ui.currentColor, bp.colorWrong),
     blur |-> ~ui.blurred,
     disabled |-> ~ui.disabled,
     sliderBroken |-> Abs(ui.sliderValue - bp.sliderBroken) <= 2,
     checkboxBroken |-> ui.checked,
     toggleBroken |-> ui.toggleState,
     dropdownBroken |-> ui.selectedOption = bp.dropdownBroken,
     opacityBroken |-> unitSatisfied(ui.opacity, bp.opacityBroken),
     scaleBroken |-> unitSatisfied(ui.scale, bp.scaleBroken)]

\* what a fixAttempt with this payload makes (after) of its element (el)
PrunedAs(el, after, payload) ==
    \E ui \in {MergeUi(el.ui, payload)} :
    \E met \in {DimensionMet(el.bp, ui)} :
        /\ after.ui = ui
        /\ \A d \in NonOrder :
              after.bp[d] = IF Present(el.bp, d) /\ met[d] THEN emptyBrokenProps[d]
                            ELSE el.bp[d]
        /\ after.bp.orderIndex = el.bp.orderIndex
        /\ ~HasOrderTarget(el)
              => (after.fixed <=> \A d \in NonOrder : ~Present(after.bp, d))

\* the step has overlaid the ui of the element id with the payload
MergedInto(id, payload) ==
    \A k \in 1..Len(state.elements) :
        state.elements[k].id = id
            => state'.elements[k].ui = MergeUi(state.elements[k].ui, payload)

\* C29: a fixAttempt takes from the brokenProps of its element exactly the
\* dimensions other than the order that the merged ui (the ui overlaid with
\* the payload) satisfies, and keeps the others; an element with two such
\* defects is fixed only when both are cleared, by one attempt or by two;
\* the other elements keep their ui and their brokenProps.
C29_PruneSatisfiedDimensions ==
    [][state.running
          => \A a \in PruneAttempts :
                (MergedInto(a.id, a.payload) /\ FixAttempt(a.id, a.payload))
                    => \A k \in 1..Len(state.elements) :
                          IF state.elements[k].id = a.id
                          THEN PrunedAs(state.elements[k], state'.elements[k], a.payload)
                          ELSE /\ state'.elements[k].ui = state.elements[k].ui
                               /\ state'.elements[k].bp = state.elements[k].bp]_vars

\* the rotation of the first element is right and its slider is not: the
\* rotate defect is cleared, the slider defect is kept, the element is not
\* fixed
C29_Witness ==
    /\ state.running
    /\ state.level = PruneLevel
    /\ state.elements[1].ui.rotation = 90
    /\ state.elements[1].ui.sliderValue = 10
    /\ state.elements[1].bp.rotateBroken = 0
    /\ state.elements[1].bp.sliderBroken = 50
    /\ ~state.elements[1].fixed

\* a second attempt has set the slider: the element is fixed
C29_WitnessBoth ==
    /\ state.running
    /\ state.level = PruneLevel
    /\ state.elements[1].ui.rotation = 200
    /\ state.elements[1].ui.sliderValue = 50
    /\ state.elements[1].fixed
    /\ state.totalFixed = 1

\* the opacity defect is cleared exactly when the opacity is within 0.1 of 1,
\* and the scale defect exactly when the scale is
UnitRule(before, after) ==
    \A k \in 1..Len(before) :
        /\ before[k].bp.opacityBroken /= NoValue =>
              (after[k].bp.opacityBroken = NoValue
                  <=> Abs(after[k].ui.opacity - 100) <= 10)
        /\ before[k].bp.scaleBroken /= NoValue =>
              (after[k].bp.scaleBroken = NoValue
                  <=> Abs(after[k].ui.scale - 100) <= 10)

\* C30: for every opacity from 0 to 1 (in hundredths) a fixAttempt clears
\* the opacity defect if and only if |opacity - 1.0| <= 0.1, and the scale
\* defect if and only if |scale - 1.0| <= 0.1; an opacity or a scale of 0
\* does not satisfy the defect.
C30_UnitWithinTolerance ==
    [][state.running => UnitRule(state.elements, state'.elements)]_vars

\* C30 for the values other than 0: the rule holds
C30_NonZeroUnit ==
    [][(/\ state.running
        /\ state'.elements /= <<>>
        /\ state'.elements[1].ui.opacity /= 0
        /\ state'.elements[1].ui.scale /= 0)
          => UnitRule(state.elements, state'.elements)]_vars

\* an opacity of 0 has cleared the opacity defect
C30_ZeroOpacityAccepted ==
    /\ state.elements /= <<>>
    /\ state.elements[1].hint = "opacity"
    /\ state.elements[1].ui.opacity = 0
    /\ state.elements[1].bp.opacityBroken = NoValue
    /\ state.elements[1].fixed

(***************************************************************************)
(* The achievement evaluator.                                              *)
(***************************************************************************)
\* C31: after startLevel, a tick, fixAttempt, useHint, usePowerUp or the end
\* of a level the achievements are evaluated: in the published state every
\* achievement whose predicate holds (first_fix: totalFixed >= 1, combo_5:
\* maxCombo >= 5, speed_demon: level > 1 and timeLeft > 60, perfectionist:
\* every element fixed and hintsUsed = 0, level_5: level >= 5, score_1000:
\* score >= 1000) is unlocked.
C31_EarnedIsUnlocked ==
    gamesPlayed > 0 => \A a \in AchievementIds : Earned(a, state) => Unlocked(a)

\* C31 for the handlers that call checkAchievements: after a fixAttempt or a
\* hint on a running level every achievement earned is unlocked
C31_EvaluatedAfterRepairAndHint ==
    [][(state.running /\ (state'.totalFixed /= state.totalFixed
                            \/ state'.hintsUsed = state.hintsUsed + 1))
          => \A a \in AchievementIds :
                Earned(a, state') => state'.achievements[a].unlocked]_vars

C33_FixedIsMonotone ==
    [][gamesPlayed' = gamesPlayed
          => \A k \in 1..Len(state.elements) :
                state.elements[k].fixed => state'.elements[k].fixed]_vars

(***************************************************************************)
(* The generator of the full-mode GameService.                             *)
(***************************************************************************)
\* C34: generateLevel(level) returns 4 + floor(level * 1.5) elements, a
\* number that does not fall as the level rises, and no two of them have the
\* same id.
C34_ElementCountAndIds ==
    [][gamesPlayed' /= gamesPlayed
          => /\ Len(state'.elements) = 4 + ((state'.level * 3) \div 2)
             /\ \A j, k \in 1..Len(state'.elements) :
                   j /= k => state'.elements[j].id /= state'.elements[k].id
             /\ \A l \in 1..state'.level :
                   4 + ((l * 3) \div 2) <= Len(state'.elements)]_vars

\* level 3 has 8 elements
C34_Witness ==
    /\ gamesPlayed = 1
    /\ state.level = 3
    /\ Len(state.elements) = 8
    /\ \A j, k \in 1..8 : j /= k => state.elements[j].id /= state.elements[k].id

\* C35: every element generateLevel returns is unfixed and has a defect, and
\* its ui meets none of its targets: a fixAttempt with an empty payload on it
\* clears none of its click, rotate, text, color, blur, disabled, slider,
\* checkbox, toggle, dropdown, opacity and scale defects.
C35_FreshElementsAreBroken ==
    [][gamesPlayed' /= gamesPlayed
          => \A k \in 1..Len(state'.elements) :
                /\ ~state'.elements[k].fixed
                /\ state'.elements[k].bp /= emptyBrokenProps
                /\ \A d \in NonOrder :
                      VerifyElement(state'.elements[k], <<>>).bp[d]
                          = state'.elements[k].bp[d]]_vars

\* C35 for the attempt itself: on a fresh level a fixAttempt with an empty
\* payload leaves every brokenProps and every ui as it is
C35_IdleAttemptClearsNothing ==
    [][(Fresh /\ IsIdleAttempt)
          => \A k \in 1..Len(state.elements) :
                /\ state'.elements[k].bp = state.elements[k].bp
                /\ state'.elements[k].ui = state.elements[k].ui]_vars

\* a fresh level 3 of elements with a rotate (90) and a slider (30) defect:
\* each stands at 270 degrees with its slider at 0
C35_Witness ==
    /\ gamesPlayed = 1
    /\ Fresh
    /\ state.level = 3
    /\ \A k \in 1..Len(state.elements) :
          /\ state.elements[k].bp.rotateBroken = 90
          /\ state.elements[k].ui.rotation = 270
          /\ state.elements[k].bp.sliderBroken = 30
          /\ state.elements[k].ui.sliderValue = 0

\* C36: in the sequence generateLevel returns the element at position p
\* (from 0) has ui.orderIndex = p, so the values are 0..count-1 without
\* duplicates, and every order target is in 0..count-1.
C36_OrderIndexIsPosition ==
    [][gamesPlayed' /= gamesPlayed
          => \A p \in 1..Len(state'.elements) :
                /\ state'.elements[p].ui.orderIndex = p - 1
                /\ HasOrderTarget(state'.elements[p])
                      => state'.elements[p].bp.orderIndex
                            \in 0..(Len(state'.elements) - 1)]_vars

\* a shuffled level: the element generated first is not the first, and it
\* shows the orderIndex of its place; the order target is the last place
C36_Witness ==
    /\ gamesPlayed = 1
    /\ Fresh
    /\ state.elements /= <<>>
    /\ state.elements[1].id /= 0
    /\ state.elements[1].ui.orderIndex = 0
    /\ state.elements[1].bp.orderIndex = Len(state.elements) - 1

(***************************************************************************)
(* The order check of the classic-mode service.                            *)
(***************************************************************************)
\* C37: in classic mode the order check marks as fixed the elements with an
\* order target and no others: an element without order target is fixed
\* only when its own defects are cleared, so the order alone does not
\* complete a level that has other elements to repair.
C37_ClassicOrderMarksOrderOnly ==
    \A k \in 1..Len(classic.state.elements) :
        (/\ ~HasOrderTarget(classic.state.elements[k])
         /\ classic.state.elements[k].fixed)
            => classicEveryValueFalsy(classic.state.elements[k].bp)

\* C37 with the order out of place: while the order check fails, the
\* elements without order target are fixed by their own repairs alone
C37_ClassicFailedOrderMarksNothing ==
    [][(classic.state.running /\ ~allGood(classic'.state.elements))
          => \A k \in 1..Len(classic.state.elements) :
                classic'.state.elements[k].fixed
                    => \/ classic.state.elements[k].fixed
                       \/ classicEveryValueFalsy(classic'.state.elements[k].bp)]_vars
(***************************************************************************)
(* Properties of the simple-mode service and component.                    *)
(***************************************************************************)
\* a startLevel has published a board
SimpleStarted == simple.state.defects /= <<>>

\* the step publishes a fresh board, as startLevel does
IsSimpleStart ==
    \E level \in 1..LastLevel : \E rnd \in SimpleDraws(level) :
        simple'.state = simpleStartLevel(level, rnd)

\* every defect that is fixed before the step is the same defect, fixed,
\* after it
FixedStaysFixed ==
    \A k \in 1..Len(simple.state.defects) :
        simple.state.defects[k].fixed =>
            /\ k <= Len(simple'.state.defects)
            /\ simple'.state.defects[k].id = simple.state.defects[k].id
            /\ simple'.state.defects[k].fixed

\* C38: in every state after a startLevel, levelComplete is true exactly
\* when every defect of the level is fixed, and a defect that is fixed stays
\* fixed until the next startLevel, whatever hitDefect (also on an unknown or
\* an already fixed id), handleWheelOnDefect and connectWires calls are made.
C38_CompleteIffAllFixed ==
    /\ [](SimpleStarted =>
            (simple.state.levelComplete <=> AllDefectsFixed(simple.state.defects)))
    /\ [][FixedStaysFixed \/ IsSimpleStart]_vars

\* a complete level 4 whose wires were connected and whose screw was turned
C38_Witness ==
    /\ SimpleStarted
    /\ simple.state.level = 4
    /\ simple.state.levelComplete
    /\ AllDefectsFixed(simple.state.defects)
    /\ \E k \in 1..Len(simple.state.defects) : simple.state.defects[k].ui.connected
    /\ \E k \in 1..Len(simple.state.defects) :
            simple.state.defects[k].ui.wheelProgress > 0

\* C39: the auto-advance fires exactly once per completed level: whatever
\* the order of emissions, 100 ms hitDefect callbacks and 2 s auto-advance
\* callbacks, the level changes only from a completed level n < 5 to n + 1
\* (a level is never replaced before it is complete, so none is skipped),
\* and it never exceeds 5.
C39_AdvanceOncePerCompletedLevel ==
    /\ [](simple.state.level <= LastLevel)
    /\ [][simple'.state.level /= simple.state.level =>
            /\ simple.state.levelComplete
            /\ simple'.state.level = simple.state.level + 1]_vars

\* the part of C39 that holds: the level moves one step at a time and stays
\* within 1..5
C39_LevelWithinRange ==
    /\ [](simple.state.level \in 1..LastLevel)
    /\ [][simple'.state.level \in {simple.state.level, simple.state.level + 1}]_vars

\* the number of pending auto-advance callbacks
AdvancesPending ==
    Cardinality({k \in 1..Len(simple.timers) : simple.timers[k].kind = "advance"})

\* a level other than the third never has two auto-advance callbacks pending
C39_OneAdvanceOutsideScrewLevels ==
    simple.state.level \in {1, 2} => AdvancesPending <= 1

\* a and b are two distinct, unfixed, not yet connected defects of type wire
ValidWirePair(s, a, b) == a /= b /\ IsFreeWire(s, a) /\ IsFreeWire(s, b)

\* C40: SimpleModeService.connectWires(a, b) on an invalid target is a
\* no-op: unless a and b are two distinct, unfixed, not yet connected wires,
\* the call leaves the state unchanged, so that no defect that is not a wire
\* or that is already fixed gets ui.connected = true.
C40_ConnectInvalidIsNoOp ==
    [][\A a \in ConnectTargets : \A b \in ConnectTargets :
          (~ValidWirePair(simple.state, a, b) /\ ConnectWires(a, b))
              => UNCHANGED simple]_vars

\* a defect whose ui.connected turns true in a step was an unfixed wire
\* before it: what onWireDrop's tests give for the calls the component makes
C40_OnlyFreeWiresGetConnected ==
    [][\A k \in 1..Len(simple.state.defects) :
          (/\ k <= Len(simple'.state.defects)
           /\ simple'.state.defects[k].ui.connected
           /\ ~simple.state.defects[k].ui.connected)
              => /\ simple.state.defects[k].type = "wire"
                 /\ ~simple.state.defects[k].fixed]_vars

\* the component has connected the two wires of level 4
C40_WiresConnectedByDrop ==
    /\ simple.subscribed
    /\ simple.state.level = 4
    /\ simple.state.defects[1].ui.connected
    /\ simple.state.defects[2].ui.connected

====
